---- MODULE Spec2Model ----
(***************************************************************************)
(* Verification model of the eSSL -> Zoho People synchronisation service.  *)
(*                                                                         *)
(*   SpecInterval : the adaptive interval policy of OptimizedSyncService   *)
(*                  (handleEmptyPoll, handleSuccessfulPoll,                *)
(*                  handleSyncError, adjustIntervalBasedOnTime)            *)
(*   SpecTwin     : two OptimizedSyncService interval states side by side  *)
(*   Spec         : the life cycle of one OptimizedSyncService instance    *)
(*                  (start, syncCycle, timers, stop, process shutdown)     *)
(*   SpecToken    : ZohoOAuthService.getValidAccessToken and its callers   *)
(*   SpecBatch    : processTransactions / processBatch /                   *)
(*                  processSingleTransaction / transformTransaction        *)
(*   SpecSink     : ZohoService.sendAttendance for one event               *)
(*   SpecSource   : ESSLService.getTransactions for one call               *)
(*   SpecApp      : Application.start and the process exit                 *)
(*   SpecRevoke   : SpecToken with revokeToken and exchangeCodeForToken    *)
(*   SpecPeak     : the interval policy next to a twin that never sees a   *)
(*                  peak hour                                              *)
(*   SpecCycle    : the cycles of one started service joined with          *)
(*                  processTransactions                                    *)
(*   SpecDecode   : the 200 branch of ESSLService.getTransactions          *)
(*   SpecHealth   : HealthMonitor (recordSyncStart, recordSyncEnd,         *)
(*                  getHealthStatus)                                       *)
(*   SpecCron     : the cron schedule of syncRecentLogs                    *)
(*   SpecStamp    : formatDateTimeForZoho followed by formatTimestamp      *)
(*   SpecEmployees: getAllEmployees and the zohoClient interceptors        *)
(*   SpecLive     : Spec with timers that fire and awaited calls that      *)
(*                  settle                                                 *)
(*                                                                         *)
(* Intervals are JavaScript numbers.  Every configuration used here has a  *)
(* dyadic backoff factor, for which IEEE double arithmetic is exact, so    *)
(* they are modelled as exact rationals <<numerator, denominator>>.        *)
(***************************************************************************)
EXTENDS Integers, Sequences, FiniteSets, TLC

VARIABLES
    \* ---- OptimizedSyncService fields (part_000:12-16) and config ----
    cfg,                \* config.essl / config.sync values read by the service
    currentInterval,    \* this.currentInterval (rational, milliseconds)
    emptyPollsCount,    \* this.emptyPollsCount
    consecutiveErrors,  \* this.consecutiveErrors
    \* ---- observation of the last cycle tail (history variables) ----
    cycleNo,            \* number of cycle tails executed so far
    lastOutcome,        \* "none" | "empty" | "records" | "error"
    ruleInterval,       \* interval right after the outcome handler returned
    allEmpty,           \* every cycle so far was an empty poll
    allOffPeak,         \* every cycle so far was scheduled outside peak hours
    \* ---- a second OptimizedSyncService interval state (SpecTwin) ----
    twin,               \* [currentInterval, emptyPollsCount, consecutiveErrors]
    twinJoint,          \* what the last pair of cycle tails had in common
    \* ---- life cycle of OptimizedSyncService and of the process (Spec) ----
    isRunning,          \* this.isRunning
    lastSyncTime,       \* this.lastSyncTime, in clock ticks
    now,                \* the wall clock, in ticks
    punches,            \* timestamps of the records held by the source
    cycles,             \* syncCycle invocations suspended at an await
    timers,             \* number of pending setTimeout(() => this.syncCycle())
    cyclesStarted,      \* number of syncCycle invocations that passed line 41
    startCalls,         \* number of start() calls made so far
    fetched,            \* timestamps returned by some fetch of some cycle
    processPhase,       \* "up" | "draining" (shutdown awaits its delay) | "exited"
    \* ---- ZohoOAuthService (SpecToken) ----
    accessToken,        \* this.accessToken: 0 (none) or the id of a token
    refreshToken,       \* this.refreshToken: 0 (none) or the id of the grant
    tokenExpiresAt,     \* this.tokenExpiresAt in minutes, 0 when not recorded
    authNow,            \* the wall clock in minutes
    callers,            \* the getValidAccessToken calls, one per caller
    tokenRequests,      \* POST /oauth/v2/token requests sent so far
    issued,             \* access tokens minted by the OAuth server so far
    envFile,            \* the token lines of the .env file
    \* ---- processTransactions of OptimizedSyncService (SpecBatch) ----
    transactions,       \* the fetched records, each reduced to its kind
    batchPc,            \* "idle" | "batch" | "delay" | "done"
    batchFrom,          \* loop variable i of processTransactions (1-based)
    inFlight,           \* positions whose sendAttendance call is awaited
    settled,            \* position -> value of its settled promise (current batch)
    results,            \* results of processTransactions: [synced, failed]
    syncStats,          \* this.syncStats: [successful, failed]
    sent,               \* positions handed to zohoService.sendAttendance
    skipsLogged,        \* "Skipping invalid transaction" warnings logged
    \* ---- ZohoService.sendAttendance for one event (SpecSink) ----
    sinkScript,         \* what the sink answers to the 1st, 2nd, ... post
    tokenMode,          \* what getValidAccessToken does: "valid" | "expired" | "unavailable"
    sinkPc,             \* "idle" | "post" | "delay" | "done"
    retryCount,         \* parameter retryCount of the current sendAttendance call
    sinkPosts,          \* requests sent to the attendance endpoint for the event
    sinkRefreshes,      \* token refreshes performed on behalf of the event
    sinkDelays,         \* the backoff delays waited so far, in milliseconds
    sinkResult,         \* value returned by the outermost sendAttendance call
    rateLimitReset,     \* seconds of the recorded rate-limit hint, 0 when none
    zohoStats,          \* [requestCount, failedRequests] of ZohoService
    \* ---- ESSLService.getTransactions for one call (SpecSource) ----
    esslVersion,        \* which getTransactions: "current" (205-315) | "earlier" (14-91)
    accepts,            \* the combinations the source answers with 200 and data
    payload,            \* shape of that data: "array" | "wrapper" | "other"
    srcPc,              \* "idle" | "request" | "wsdl" | "delay" | "done"
    attempt,            \* loop variable attempt of getTransactions
    srcCombo,           \* position of the combination whose request is awaited
    sentSeq,            \* the combinations requested so far, in order
    succeededAt,        \* position in sentSeq of the first accepted request, or 0
    lastError,          \* local variable lastError
    roundErrors,        \* the error each finished attempt ended with
    srcDelays,          \* the backoff delays waited so far, in milliseconds
    saw4xx,             \* some reply so far was a 4xx other than 429
    requestAfter4xx,    \* a request was sent after such a reply
    blank,              \* the combinations it answers with a 2xx without usable data
    wsdlFetches,        \* GET ?wsdl requests sent by ensureSoapMeta
    soapMeta,           \* this.soapNs && this.soapActionMap
    esslStats,          \* [requestCount, failedRequests] of ESSLService
    sourceResult,       \* what the getTransactions call returned
    \* ---- Application (app.js) and the remote systems (SpecApp) ----
    appPc,              \* "constructed" | "testingSource" | "testingSink" | "starting"
                        \* | "running" | "shuttingDown" | "exited"
    sourceUp,           \* the source answers (no outage, 5xx, 429 or timeout)
    sinkUp,             \* the sink answers (no outage, 5xx, 429 or timeout)
    configValid,        \* [essl, zoho]: the static credentials are present and valid
    exitCode,           \* argument of process.exit, -1 while the process lives
    exitCause,          \* "none" | "transient" | "configuration" | "signal"
    appCycles,          \* sync cycles completed since the service started
    \* ---- revokeToken / exchangeCodeForToken of ZohoOAuthService (SpecRevoke) ----
    revokePc,           \* "idle" | "posting" | "saving" | "done" | "threw"
    revokeFailed,       \* the revoke request failed with something else than 400
    exchange,           \* exchangeCodeForToken: [pc, info], pc as for revokePc
    revoked,            \* revokeToken has cleared the tokens and no new grant came since
    handedAfterRevoke,  \* a getValidAccessToken call returned a token while revoked
    \* ---- the clock read by adjustIntervalBasedOnTime (SpecPeak) ----
    clockHour,          \* currentHour of the last call (line 278), -1 before the first
    \* ---- the 200 branch of ESSLService.getTransactions (SpecDecode) ----
    decodeVersion,      \* which getTransactions: "current" (274-297) | "earlier" (67-73)
    responseData,       \* response.data of the 200 response
    decodeResult,       \* what the branch returned and logged
    \* ---- HealthMonitor (part_001:63-183, SpecHealth) ----
    metrics,            \* this.metrics (the counters and averageSyncTime)
    currentSyncStart,   \* this.currentSyncStart: "undefined" | "set"
    healthLog,          \* history: the calls made so far
    report,             \* status of a getHealthStatus call made in this state
    \* ---- the cron job of part_004 running syncRecentLogs (SpecCron) ----
    cronNow,            \* wall clock, minutes
    deviceLogs,         \* LogDate of the rows of the DeviceLogs table
    cronRuns,           \* the syncRecentLogs runs started so far, in order
    \* ---- formatDateTimeForZoho and formatTimestamp (SpecStamp) ----
    punchDate,          \* the Date given to formatDateTimeForZoho (local fields)
    formatted,          \* its result, a string (sequence of characters)
    parsedBack,         \* result of formatTimestamp(formatted): a string or null
    \* ---- sink-client operations with a 401 retry (SpecEmployees) ----
    employeesCall,      \* a ZohoService.getAllEmployees call
    clientCall          \* a request made through zohoClient() of zohoAuth.js

intervalVars == <<cfg, currentInterval, emptyPollsCount, consecutiveErrors>>
historyVars == <<cycleNo, lastOutcome, ruleInterval, allEmpty, allOffPeak>>
twinVars == <<twin, twinJoint>>
syncVars ==
    <<isRunning, lastSyncTime, now, punches, cycles, timers, cyclesStarted,
      startCalls, fetched, processPhase>>
tokenVars ==
    <<accessToken, refreshToken, tokenExpiresAt, authNow, callers, tokenRequests,
      issued, envFile>>
batchVars ==
    <<transactions, batchPc, batchFrom, inFlight, settled, results, syncStats, sent,
      skipsLogged>>
sinkVars ==
    <<sinkScript, tokenMode, sinkPc, retryCount, sinkPosts, sinkRefreshes,
      sinkDelays, sinkResult, rateLimitReset, zohoStats>>
sourceVars ==
    <<esslVersion, accepts, payload, srcPc, attempt, srcCombo, sentSeq,
      succeededAt, lastError, roundErrors, srcDelays, saw4xx, requestAfter4xx,
      blank, wsdlFetches, soapMeta, esslStats, sourceResult>>
appVars ==
    <<appPc, sourceUp, sinkUp, configValid, exitCode, exitCause, appCycles>>
revokeVars == <<revokePc, revokeFailed, exchange, revoked, handedAfterRevoke>>
peakVars == <<clockHour>>
decodeVars == <<decodeVersion, responseData, decodeResult>>
healthVars == <<metrics, currentSyncStart, healthLog, report>>
cronVars == <<cronNow, deviceLogs, cronRuns>>
stampVars == <<punchDate, formatted, parsedBack>>
employeesVars == <<employeesCall, clientCall>>
moreVars == <<decodeVars, healthVars, cronVars, stampVars, employeesVars>>
clientVars == <<sinkVars, sourceVars, appVars, revokeVars, peakVars, moreVars>>
vars ==
    <<intervalVars, historyVars, twinVars, syncVars, tokenVars, batchVars,
      clientVars>>

\* What each specification leaves alone.
outsideInterval == <<twinVars, syncVars, tokenVars, batchVars, clientVars>>
outsideTwin == <<syncVars, tokenVars, batchVars, clientVars>>
outsideSync == <<twinVars, tokenVars, batchVars, clientVars>>
outsideToken ==
    <<intervalVars, historyVars, twinVars, syncVars, batchVars, clientVars>>
outsideBatch ==
    <<intervalVars, historyVars, twinVars, syncVars, tokenVars, clientVars>>
outsideSink ==
    <<intervalVars, historyVars, twinVars, syncVars, tokenVars, batchVars,
      sourceVars, appVars, revokeVars, peakVars, moreVars>>
outsideSource ==
    <<intervalVars, historyVars, twinVars, syncVars, tokenVars, batchVars,
      sinkVars, appVars, revokeVars, peakVars, moreVars>>
outsideApp ==
    <<intervalVars, historyVars, twinVars, syncVars, tokenVars, batchVars,
      sinkVars, sourceVars, revokeVars, peakVars, moreVars>>
outsideRevoke ==
    <<intervalVars, historyVars, twinVars, syncVars, batchVars, sinkVars,
      sourceVars, appVars, peakVars, moreVars>>
outsideMore ==
    <<intervalVars, historyVars, twinVars, syncVars, tokenVars, batchVars,
      sinkVars, sourceVars, appVars, revokeVars, peakVars>>

(***************************************************************************)
(* Bounds of the model.                                                    *)
(***************************************************************************)
MaxCycles == 6
MaxTwinCycles == 3
MaxTime == 2
MaxSyncCycles == 3
MaxStarts == 2
NumCallers == 2
MaxAuthTime == 2
MaxShort == 3
MaxAppCycles == 3
MaxPeakCycles == 3
MaxBackoffExponent == 10
MaxPayloadLen == 3
MaxHealthCycles == 3
MaxCronTicks == 3
MaxEmployeeRequests == 4

(***************************************************************************)
(* Exact rational arithmetic for JavaScript numbers.                       *)
(***************************************************************************)
RECURSIVE Gcd(_, _)
Gcd(a, b) == IF b = 0 THEN a ELSE Gcd(b, a % b)

Abs(x) == IF x < 0 THEN -x ELSE x

Rat(n, d) ==
    LET g == Gcd(Abs(n), d)
    IN  IF n = 0 THEN <<0, 1>> ELSE <<n \div g, d \div g>>

Int2Rat(n) == <<n, 1>>

RatMul(a, b) ==
    LET g1 == Gcd(Abs(a[1]), b[2])
        g2 == Gcd(Abs(b[1]), a[2])
        h1 == IF g1 = 0 THEN 1 ELSE g1
        h2 == IF g2 = 0 THEN 1 ELSE g2
    IN  Rat((a[1] \div h1) * (b[1] \div h2), (a[2] \div h2) * (b[2] \div h1))

RatHalf(a) == RatMul(a, <<1, 2>>)

RatLess(a, b) ==
    LET l == (a[2] \div Gcd(a[2], b[2])) * b[2]
    IN  a[1] * (l \div a[2]) < b[1] * (l \div b[2])

RatLeq(a, b) == a = b \/ RatLess(a, b)

\* Math.min / Math.max
MathMin(a, b) == IF RatLess(b, a) THEN b ELSE a
MathMax(a, b) == IF RatLess(a, b) THEN b ELSE a

\* Math.pow(f, k) for an integer k >= 0
RECURSIVE MathPow(_, _)
MathPow(f, k) == IF k = 0 THEN <<1, 1>> ELSE RatMul(f, MathPow(f, k - 1))

(***************************************************************************)
(* Configuration (config/config.js).                                       *)
(***************************************************************************)
DefaultConfig ==
    [ minInterval |-> 10000, baseInterval |-> 20000, maxInterval |-> 120000,
      backoffFactor |-> <<3, 2>>, emptyPollsToBackoff |-> 5 ]

\* Environment overrides: parseInt(ESSL_*_INTERVAL), parseFloat(BACKOFF_FACTOR),
\* parseInt(EMPTY_POLLS_BACKOFF).  All have min <= base <= max; parseInt and
\* parseFloat accept negative values and factors below 1.
IntervalTriples ==
    { <<10000, 20000, 120000>>, <<10000, 10000, 10000>>,
      <<15000, 20000, 25000>>, <<5000, 30000, 30000>>,
      <<-30000, -20000, -10000>> }

BackoffFactors == { <<1, 1>>, <<3, 2>>, <<2, 1>>, <<1, 2>> }

Thresholds == { 1, 5 }

Configs ==
    { [ minInterval |-> t[1], baseInterval |-> t[2], maxInterval |-> t[3],
        backoffFactor |-> f, emptyPollsToBackoff |-> e ] :
        t \in IntervalTriples, f \in BackoffFactors, e \in Thresholds }

Hours == 0 .. 23

\* this.peakHours (part_000:26-29) and the test of adjustIntervalBasedOnTime
isPeakHour(currentHour) ==
    \/ (currentHour >= 8 /\ currentHour < 10)
    \/ (currentHour >= 17 /\ currentHour < 19)

(***************************************************************************)
(* Interval handlers of OptimizedSyncService, on the record                *)
(*   s = [currentInterval, emptyPollsCount, consecutiveErrors].            *)
(***************************************************************************)
this ==
    [ currentInterval |-> currentInterval,
      emptyPollsCount |-> emptyPollsCount,
      consecutiveErrors |-> consecutiveErrors ]

\* Mutant: the threshold test written with > instead of >=.
handleEmptyPollStrict(s) ==
    LET n == s.emptyPollsCount + 1
        newInterval == MathMin(Int2Rat(cfg.maxInterval),
                               RatMul(s.currentInterval, cfg.backoffFactor))
    IN  [ emptyPollsCount |-> n,
          consecutiveErrors |-> 0,
          currentInterval |->
              IF n > cfg.emptyPollsToBackoff /\ newInterval # s.currentInterval
              THEN newInterval ELSE s.currentInterval ]

\* Mutant: the backoff multiplies the base interval instead of the interval held.
handleEmptyPollFromBase(s) ==
    LET n == s.emptyPollsCount + 1
        newInterval == MathMin(Int2Rat(cfg.maxInterval),
                               RatMul(Int2Rat(cfg.baseInterval), cfg.backoffFactor))
    IN  [ emptyPollsCount |-> n,
          consecutiveErrors |-> 0,
          currentInterval |->
              IF n >= cfg.emptyPollsToBackoff /\ newInterval # s.currentInterval
              THEN newInterval ELSE s.currentInterval ]

handleEmptyPoll(s) ==
    LET n == s.emptyPollsCount + 1
        newInterval == MathMin(Int2Rat(cfg.maxInterval),
                               RatMul(s.currentInterval, cfg.backoffFactor))
    IN  [ emptyPollsCount |-> n,
          consecutiveErrors |-> 0,
          currentInterval |->
              IF n >= cfg.emptyPollsToBackoff /\ newInterval # s.currentInterval
              THEN newInterval ELSE s.currentInterval ]

\* Mutant: activity resets the interval and the empty polls only.
handleSuccessfulPollKeeping(s) ==
    [ emptyPollsCount |-> 0,
      consecutiveErrors |-> s.consecutiveErrors,
      currentInterval |->
          IF s.currentInterval # Int2Rat(cfg.baseInterval)
          THEN Int2Rat(cfg.baseInterval) ELSE s.currentInterval ]

handleSuccessfulPoll(s) ==
    [ emptyPollsCount |-> 0,
      consecutiveErrors |-> 0,
      currentInterval |->
          IF s.currentInterval # Int2Rat(cfg.baseInterval)
          THEN Int2Rat(cfg.baseInterval) ELSE s.currentInterval ]

\* Mutant: the backoff grows the interval held before instead of the base.
handleSyncErrorCompounding(s) ==
    LET k == s.consecutiveErrors + 1
        newInterval == MathMin(Int2Rat(cfg.maxInterval),
                               RatMul(s.currentInterval, cfg.backoffFactor))
    IN  [ consecutiveErrors |-> k,
          emptyPollsCount |-> 0,
          currentInterval |-> newInterval ]

\* Mutant: an error leaves the empty-poll counter as it is.
handleSyncErrorKeeping(s) ==
    LET k == s.consecutiveErrors + 1
        newInterval == MathMin(Int2Rat(cfg.maxInterval),
                               RatMul(Int2Rat(cfg.baseInterval),
                                      MathPow(cfg.backoffFactor, k)))
    IN  [ consecutiveErrors |-> k,
          emptyPollsCount |-> s.emptyPollsCount,
          currentInterval |->
              IF newInterval # s.currentInterval
              THEN newInterval ELSE s.currentInterval ]

handleSyncError(s) ==
    LET k == s.consecutiveErrors + 1
        newInterval == MathMin(Int2Rat(cfg.maxInterval),
                               RatMul(Int2Rat(cfg.baseInterval),
                                      MathPow(cfg.backoffFactor, k)))
    IN  [ consecutiveErrors |-> k,
          emptyPollsCount |-> 0,
          currentInterval |->
              IF newInterval # s.currentInterval
              THEN newInterval ELSE s.currentInterval ]

\* Mutant: the halving is not clamped at minInterval.
adjustIntervalUnclamped(s, currentHour) ==
    IF isPeakHour(currentHour) /\ RatLess(Int2Rat(cfg.minInterval), s.currentInterval)
    THEN [ s EXCEPT !.currentInterval = RatHalf(s.currentInterval) ]
    ELSE s

adjustIntervalBasedOnTime(s, currentHour) ==
    IF isPeakHour(currentHour) /\ RatLess(Int2Rat(cfg.minInterval), s.currentInterval)
    THEN [ s EXCEPT !.currentInterval =
               MathMax(Int2Rat(cfg.minInterval), RatHalf(s.currentInterval)) ]
    ELSE s

\* The synchronous tail of syncCycle once the fetch has settled: the outcome
\* handler, then (only while isRunning) the peak-hour adjustment.
OutcomeHandler(outcome, s) ==
    CASE outcome = "empty"   -> handleEmptyPoll(s)
      [] outcome = "records" -> handleSuccessfulPoll(s)
      [] outcome = "error"   -> handleSyncError(s)

CycleTail(outcome, s, running, currentHour) ==
    IF running THEN adjustIntervalBasedOnTime(OutcomeHandler(outcome, s), currentHour)
    ELSE OutcomeHandler(outcome, s)

(***************************************************************************)
(* SpecInterval: every sequence of cycle outcomes at any clock hour.       *)
(***************************************************************************)
\* The fields of a freshly constructed service (part_000:12-16) and the
\* history variables before any cycle.
ServiceConstructed ==
    /\ currentInterval = Int2Rat(cfg.baseInterval)
    /\ emptyPollsCount = 0
    /\ consecutiveErrors = 0
    /\ cycleNo = 0
    /\ lastOutcome = "none"
    /\ ruleInterval = Int2Rat(cfg.baseInterval)
    /\ allEmpty = TRUE
    /\ allOffPeak = TRUE

\* The second interval state is not used.
TwinIdle ==
    /\ twin = [ currentInterval |-> <<0, 1>>, emptyPollsCount |-> 0,
                consecutiveErrors |-> 0 ]
    /\ twinJoint = [ same |-> FALSE, outcome |-> "none", differed |-> FALSE ]

\* The service is never started and the process never signalled.
SyncIdle ==
    /\ isRunning = FALSE
    /\ lastSyncTime = 0
    /\ now = 1
    /\ punches = {}
    /\ cycles = {}
    /\ timers = 0
    /\ cyclesStarted = 0
    /\ startCalls = 0
    /\ fetched = {}
    /\ processPhase = "up"

\* No token manager call is made.
TokenIdle ==
    /\ accessToken = 0
    /\ refreshToken = 0
    /\ tokenExpiresAt = 0
    /\ authNow = 1
    /\ callers = <<>>
    /\ tokenRequests = 0
    /\ issued = 0
    /\ envFile = [ accessToken |-> 0, expiresAt |-> 0 ]

\* processTransactions is never called.
BatchIdle ==
    /\ transactions = <<>>
    /\ batchPc = "idle"
    /\ batchFrom = 1
    /\ inFlight = {}
    /\ settled = <<>>
    /\ results = [ synced |-> 0, failed |-> 0 ]
    /\ syncStats = [ successful |-> 0, failed |-> 0 ]
    /\ sent = {}
    /\ skipsLogged = 0

\* sendAttendance is never called.
SinkIdle ==
    /\ sinkScript = <<>>
    /\ tokenMode = "valid"
    /\ sinkPc = "idle"
    /\ retryCount = 0
    /\ sinkPosts = 0
    /\ sinkRefreshes = 0
    /\ sinkDelays = <<>>
    /\ sinkResult = [ returned |-> FALSE ]
    /\ rateLimitReset = 0
    /\ zohoStats = [ requestCount |-> 0, failedRequests |-> 0 ]

NoError == [ kind |-> "none", status |-> 0 ]

\* getTransactions is never called.
SourceIdle ==
    /\ esslVersion = "current"
    /\ accepts = {}
    /\ payload = "array"
    /\ srcPc = "idle"
    /\ attempt = 0
    /\ srcCombo = 0
    /\ sentSeq = <<>>
    /\ succeededAt = 0
    /\ lastError = NoError
    /\ roundErrors = <<>>
    /\ srcDelays = <<>>
    /\ saw4xx = FALSE
    /\ requestAfter4xx = FALSE
    /\ blank = {}
    /\ wsdlFetches = 0
    /\ soapMeta = FALSE
    /\ esslStats = [ requestCount |-> 0, failedRequests |-> 0 ]
    /\ sourceResult = [ returned |-> FALSE ]

\* The Application object is not started.
AppIdle ==
    /\ appPc = "constructed"
    /\ sourceUp = TRUE
    /\ sinkUp = TRUE
    /\ configValid = [ essl |-> TRUE, zoho |-> TRUE ]
    /\ exitCode = -1
    /\ exitCause = "none"
    /\ appCycles = 0

\* Neither revokeToken nor exchangeCodeForToken is called.
RevokeIdle ==
    /\ revokePc = "idle"
    /\ revokeFailed = FALSE
    /\ exchange = [ pc |-> "idle", info |-> [ accessToken |-> 0, expiresAt |-> 0 ] ]
    /\ revoked = FALSE
    /\ handedAfterRevoke = FALSE

\* adjustIntervalBasedOnTime has not been observed.
PeakIdle == clockHour = -1

\* JavaScript values of response.data: a type tag, the identity of a record
\* object, the elements of an array.
Undefined == [ type |-> "undefined", id |-> 0, items |-> <<>> ]

NoValue == [ type |-> "undefined", id |-> 0, items |-> <<>>, result |-> Undefined ]

\* getTransactions has not been given a response.
DecodeIdle ==
    /\ decodeVersion = "current"
    /\ responseData = NoValue
    /\ decodeResult = [ returned |-> FALSE ]

\* averageSyncTime is a rational; 0/0 stands for NaN.
NaN == <<0, 0>>

\* this.metrics after the constructor (part_001:65-76).
NewMetrics ==
    [ totalSyncCycles |-> 0, successfulSyncs |-> 0, failedSyncs |-> 0,
      totalTransactions |-> 0, successfulTransactions |-> 0,
      failedTransactions |-> 0, averageSyncTime |-> <<0, 1>> ]

NoHealthLog == [ complete |-> TRUE, open |-> FALSE, ends |-> 0, sum |-> 0 ]

NoReport == [ status |-> "none", memoryBelow |-> TRUE ]

\* The HealthMonitor has not been called.
HealthIdle ==
    /\ metrics = NewMetrics
    /\ currentSyncStart = "undefined"
    /\ healthLog = NoHealthLog
    /\ report = NoReport

\* The cron schedule has not ticked.
CronIdle == cronNow = 0 /\ deviceLogs = {} /\ cronRuns = <<>>

NoDate == [ year |-> 0, month |-> 0, day |-> 0, hour |-> 0, minute |-> 0, second |-> 0 ]

\* No timestamp has been formatted.
StampIdle == punchDate = NoDate /\ formatted = <<>> /\ parsedBack = <<>>

NoSinkCall == [ pc |-> "idle", requests |-> 0, refreshes |-> 0, result |-> "none" ]

\* Neither getAllEmployees nor zohoClient has been called.
EmployeesIdle == employeesCall = NoSinkCall /\ clientCall = NoSinkCall

MoreIdle == DecodeIdle /\ HealthIdle /\ CronIdle /\ StampIdle /\ EmployeesIdle

\* The clients of the source and of the sink are not exercised.
ClientsIdle ==
    SinkIdle /\ SourceIdle /\ AppIdle /\ RevokeIdle /\ PeakIdle /\ MoreIdle

InitInterval ==
    /\ cfg \in Configs
    /\ ServiceConstructed
    /\ ClientsIdle
    /\ TwinIdle
    /\ SyncIdle
    /\ TokenIdle
    /\ BatchIdle

\* What the tail of a cycle does to the interval fields.
IntervalUpdate(outcome, running, currentHour) ==
    LET s1 == OutcomeHandler(outcome, this)
        s2 == CycleTail(outcome, this, running, currentHour)
    IN  /\ currentInterval' = s2.currentInterval
        /\ emptyPollsCount' = s2.emptyPollsCount
        /\ consecutiveErrors' = s2.consecutiveErrors
        /\ cycleNo' = cycleNo + 1
        /\ lastOutcome' = outcome
        /\ ruleInterval' = s1.currentInterval
        /\ allEmpty' = (allEmpty /\ outcome = "empty" /\ running)
        /\ allOffPeak' = (allOffPeak /\ ~isPeakHour(currentHour))
        /\ UNCHANGED cfg

ApplyCycle(outcome, running, currentHour) ==
    /\ cycleNo < MaxCycles
    /\ IntervalUpdate(outcome, running, currentHour)
    /\ UNCHANGED outsideInterval

EmptyCycle == \E h \in Hours, r \in BOOLEAN : ApplyCycle("empty", r, h)
RecordsCycle == \E h \in Hours, r \in BOOLEAN : ApplyCycle("records", r, h)
ErrorCycle == \E h \in Hours, r \in BOOLEAN : ApplyCycle("error", r, h)

NextInterval == EmptyCycle \/ RecordsCycle \/ ErrorCycle

SpecInterval == InitInterval /\ [][NextInterval]_vars

(***************************************************************************)
(* Properties of the interval policy.                                      *)
(***************************************************************************)
InBounds(x) ==
    /\ RatLeq(Int2Rat(cfg.minInterval), x)
    /\ RatLeq(x, Int2Rat(cfg.maxInterval))

WellOrdered == cfg.minInterval <= cfg.baseInterval /\ cfg.baseInterval <= cfg.maxInterval

\* C1 (as claimed): for every configuration with min <= base <= max the
\* interval lies in [minInterval, maxInterval] after the outcome handler and
\* after adjustIntervalBasedOnTime, whatever the sequence of outcomes and hours.
C1_IntervalInBoundsAsClaimed ==
    WellOrdered => (InBounds(ruleInterval) /\ InBounds(currentInterval))

\* C1 (amended): the same, for configurations that also have positive
\* intervals and a backoff factor of at least 1.
C1_IntervalInBounds ==
    (WellOrdered /\ cfg.minInterval > 0 /\ RatLeq(<<1, 1>>, cfg.backoffFactor))
        => (InBounds(ruleInterval) /\ InBounds(currentInterval))

\* C1 witness: an empty poll was clamped at maxInterval and the peak-hour
\* adjustment then halved it, under a configuration with min < max, factor > 1.
C1_Witness ==
    /\ cfg.minInterval > 0
    /\ cfg.minInterval < cfg.maxInterval
    /\ RatLess(<<1, 1>>, cfg.backoffFactor)
    /\ lastOutcome = "empty"
    /\ ruleInterval = Int2Rat(cfg.maxInterval)
    /\ currentInterval = RatHalf(Int2Rat(cfg.maxInterval))

\* base * factor^k by repeated multiplication
RECURSIVE ErrorBackoff(_)
ErrorBackoff(k) ==
    IF k = 0 THEN Int2Rat(cfg.baseInterval)
    ELSE RatMul(ErrorBackoff(k - 1), cfg.backoffFactor)

\* C7: after handleSyncError has brought consecutiveErrors to k >= 1, the
\* interval it leaves equals min(maxInterval, baseInterval * backoffFactor^k),
\* whatever interval was held before the error.
C7_ErrorBackoffExact ==
    lastOutcome = "error" =>
        /\ consecutiveErrors >= 1
        /\ ruleInterval = MathMin(Int2Rat(cfg.maxInterval), ErrorBackoff(consecutiveErrors))

\* C7 witness: two errors in a row under the default configuration, the first
\* one followed by a peak-hour halving (30000 -> 15000), the second one
\* computing 20000 * 1.5^2 = 45000 all the same.
C7_Witness ==
    /\ cfg = DefaultConfig
    /\ lastOutcome = "error"
    /\ cycleNo = 2
    /\ consecutiveErrors = 2
    /\ ruleInterval = <<45000, 1>>
    /\ currentInterval = <<22500, 1>>

\* The scenario of C9: default configuration, only empty polls so far.
EmptyScenario == cfg = DefaultConfig /\ allEmpty /\ cycleNo \in 1 .. 5

ScenarioInterval == IF cycleNo < 5 THEN <<20000, 1>> ELSE <<30000, 1>>

\* C9 (as claimed): from currentInterval = base = 20000 with
\* emptyPollsToBackoff = 5 and backoffFactor = 1.5, the interval is 20000 after
\* each of the first four empty cycles and 30000 after the fifth.
C9_FifthEmptyPollAsClaimed == EmptyScenario => currentInterval = ScenarioInterval

\* C9 (amended): the same, when the five cycles are scheduled outside the
\* peak hours [8,10) and [17,19).
C9_FifthEmptyPoll == (EmptyScenario /\ allOffPeak) => currentInterval = ScenarioInterval

\* C9 witness: the fifth empty off-peak cycle has raised the interval to 30000.
C9_Witness ==
    /\ EmptyScenario
    /\ allOffPeak
    /\ cycleNo = 5
    /\ emptyPollsCount = 5
    /\ currentInterval = <<30000, 1>>

(***************************************************************************)
(* SpecTwin: two interval states of the same configuration, each taking    *)
(* its own cycle outcomes at its own clock hours.                          *)
(***************************************************************************)
Outcomes == { "empty", "records", "error" }

\* one peak hour and one off-peak hour
TwinHours == { 8, 12 }

TwinConfigs ==
    { DefaultConfig, [ DefaultConfig EXCEPT !.emptyPollsToBackoff = 1 ] }

InitTwin ==
    /\ cfg \in TwinConfigs
    /\ ServiceConstructed
    /\ ClientsIdle
    /\ twin = this
    /\ twinJoint = [ same |-> FALSE, outcome |-> "none", differed |-> FALSE ]
    /\ SyncIdle
    /\ TokenIdle
    /\ BatchIdle

TwinStep(oa, ha, ob, hb) ==
    /\ cycleNo < MaxTwinCycles
    /\ IntervalUpdate(oa, TRUE, ha)
    /\ twin' = CycleTail(ob, twin, TRUE, hb)
    /\ twinJoint' =
           [ same |-> /\ oa = ob
                      /\ ha = hb
                      /\ emptyPollsCount = twin.emptyPollsCount
                      /\ consecutiveErrors = twin.consecutiveErrors,
             outcome |-> oa,
             differed |-> currentInterval # twin.currentInterval ]
    /\ UNCHANGED outsideTwin

TwinCycle == \E oa \in Outcomes, ob \in Outcomes, ha \in TwinHours, hb \in TwinHours :
    TwinStep(oa, ha, ob, hb)

NextTwin == TwinCycle

SpecTwin == InitTwin /\ [][NextTwin]_vars

\* C8 (as claimed): two services with equal counters that process the same
\* cycle outcome at the same clock hour schedule the next cycle with the same
\* interval, whatever their histories.
C8_IntervalFromCountersAsClaimed ==
    twinJoint.same => currentInterval = twin.currentInterval

\* C8 (amended): this holds for the error outcome and for the non-empty
\* outcome; for an empty poll the scheduled interval is a function of the
\* counters, the clock hour and the interval held before the cycle.
C8_IntervalFromCounters ==
    /\ (twinJoint.same /\ twinJoint.outcome \in { "error", "records" })
           => currentInterval = twin.currentInterval
    /\ (twinJoint.same /\ ~twinJoint.differed)
           => currentInterval = twin.currentInterval

\* C8 witness: the two services held different intervals with equal
\* counters, both took an error at the same hour and now agree.
C8_Witness ==
    /\ twinJoint.same
    /\ twinJoint.differed
    /\ twinJoint.outcome = "error"
    /\ consecutiveErrors = 2
    /\ currentInterval = twin.currentInterval

(***************************************************************************)
(* Spec: the life cycle of one OptimizedSyncService instance inside the    *)
(* Application process.  start() and stop() are public methods and may be  *)
(* called at any time; a syncCycle invocation is suspended at             *)
(*   await esslService.getTransactions(...)   (phase "fetching")           *)
(*   await this.processTransactions(...)      (phase "processing")         *)
(* and everything between two awaits runs as one step.                     *)
(***************************************************************************)
LifeHours == TwinHours

InitialCursor == 0

\* syncCycle from its entry to the await of getTransactions (lines 41-53);
\* the arguments lastSyncTime and currentTime are evaluated at the call.
BeginCycle ==
    /\ cyclesStarted < MaxSyncCycles
    /\ cycles' = cycles \cup
           { [ id |-> cyclesStarted + 1, from |-> lastSyncTime, to |-> now,
               phase |-> "fetching" ] }
    /\ cyclesStarted' = cyclesStarted + 1

\* Mutant: the cycle ends without setting a timer.
ScheduleNextNever == timers' = timers

\* "if (this.isRunning) { adjust...; setTimeout(...) }" (lines 82-86); the
\* interval part is in IntervalUpdate.
ScheduleNext == timers' = IF isRunning THEN timers + 1 ELSE timers

\* getTransactions(from, to): the records of the window on success, [] after
\* a recorded failure (ESSLService.js:313-314).
getTransactions(ok, from, to) ==
    IF ok THEN { t \in punches : from <= t /\ t <= to } ELSE {}

Init ==
    /\ cfg = DefaultConfig
    /\ ServiceConstructed
    /\ ClientsIdle
    /\ TwinIdle
    /\ isRunning = FALSE
    /\ lastSyncTime = InitialCursor
    /\ now = 1
    /\ punches = {}
    /\ cycles = {}
    /\ timers = 0
    /\ cyclesStarted = 0
    /\ startCalls = 0
    /\ fetched = {}
    /\ processPhase = "up"
    /\ TokenIdle
    /\ BatchIdle

\* start(): no guard on isRunning.
Start ==
    /\ processPhase = "up"
    /\ startCalls < MaxStarts
    /\ startCalls' = startCalls + 1
    /\ isRunning' = TRUE
    /\ BeginCycle
    /\ UNCHANGED <<intervalVars, historyVars, outsideSync, lastSyncTime, now, punches,
                   timers, fetched, processPhase>>

\* stop(): clears the flag only; a pending timer is left pending.
Stop ==
    /\ processPhase # "exited"
    /\ isRunning
    /\ isRunning' = FALSE
    /\ UNCHANGED <<intervalVars, historyVars, outsideSync, lastSyncTime, now, punches,
                   cycles, timers, cyclesStarted, startCalls, fetched, processPhase>>

\* A setTimeout callback runs syncCycle(), which returns at once when stopped.
TimerFire ==
    /\ processPhase # "exited"
    /\ timers > 0
    /\ timers' = timers - 1
    /\ IF isRunning THEN BeginCycle ELSE UNCHANGED <<cycles, cyclesStarted>>
    /\ UNCHANGED <<intervalVars, historyVars, outsideSync, isRunning, lastSyncTime, now,
                   punches, startCalls, fetched, processPhase>>

\* The fetch settles with no record: an empty window, or a failed fetch that
\* getTransactions reports as [].
FetchEmpty(c, ok, h) ==
    /\ processPhase # "exited"
    /\ c \in cycles /\ c.phase = "fetching"
    /\ getTransactions(ok, c.from, c.to) = {}
    /\ IntervalUpdate("empty", isRunning, h)
    /\ lastSyncTime' = c.to
    /\ cycles' = cycles \ { c }
    /\ ScheduleNext
    /\ UNCHANGED <<outsideSync, isRunning, now, punches, cyclesStarted, startCalls,
                   fetched, processPhase>>

\* The fetch settles with records: the cycle awaits processTransactions.
FetchRecords(c) ==
    /\ processPhase # "exited"
    /\ c \in cycles /\ c.phase = "fetching"
    /\ getTransactions(TRUE, c.from, c.to) # {}
    /\ fetched' = fetched \cup getTransactions(TRUE, c.from, c.to)
    /\ cycles' = (cycles \ { c }) \cup { [ c EXCEPT !.phase = "processing" ] }
    /\ UNCHANGED <<intervalVars, historyVars, outsideSync, isRunning, lastSyncTime, now,
                   punches, timers, cyclesStarted, startCalls, processPhase>>

\* Mutant: the catch branch advances the cursor like the try block does.
FetchThrowsAdvancing(c, h) ==
    /\ processPhase # "exited"
    /\ c \in cycles /\ c.phase = "fetching"
    /\ IntervalUpdate("error", isRunning, h)
    /\ lastSyncTime' = c.to
    /\ cycles' = cycles \ { c }
    /\ ScheduleNext
    /\ UNCHANGED <<outsideSync, isRunning, now, punches, cyclesStarted, startCalls,
                   fetched, processPhase>>

\* The awaited call rejects: the catch branch (lines 75-79).
FetchThrows(c, h) ==
    /\ processPhase # "exited"
    /\ c \in cycles /\ c.phase = "fetching"
    /\ IntervalUpdate("error", isRunning, h)
    /\ cycles' = cycles \ { c }
    /\ ScheduleNext
    /\ UNCHANGED <<outsideSync, isRunning, lastSyncTime, now, punches, cyclesStarted,
                   startCalls, fetched, processPhase>>

\* Mutant: the cursor is set to the time at which the cycle ends.
ProcessSettleAtEnd(c, h) ==
    /\ processPhase # "exited"
    /\ c \in cycles /\ c.phase = "processing"
    /\ IntervalUpdate("records", isRunning, h)
    /\ lastSyncTime' = now
    /\ cycles' = cycles \ { c }
    /\ ScheduleNext
    /\ UNCHANGED <<outsideSync, isRunning, now, punches, cyclesStarted, startCalls,
                   fetched, processPhase>>

\* processTransactions resolves (it never rejects): lines 63-73 and 81-86.
ProcessSettle(c, h) ==
    /\ processPhase # "exited"
    /\ c \in cycles /\ c.phase = "processing"
    /\ IntervalUpdate("records", isRunning, h)
    /\ lastSyncTime' = c.to
    /\ cycles' = cycles \ { c }
    /\ ScheduleNext
    /\ UNCHANGED <<outsideSync, isRunning, now, punches, cyclesStarted, startCalls,
                   fetched, processPhase>>

\* Application.setupGracefulShutdown, shutdown(signal) up to "await
\* this.delay(2000)".  The handlers are installed once syncService.start()
\* has resolved, that is after a first cycle has ended.
Shutdown ==
    /\ processPhase = "up"
    /\ cycleNo >= 1
    /\ isRunning' = FALSE
    /\ processPhase' = "draining"
    /\ UNCHANGED <<intervalVars, historyVars, outsideSync, lastSyncTime, now, punches,
                   cycles, timers, cyclesStarted, startCalls, fetched>>

\* The delay has elapsed: process.exit(0).
ShutdownExit ==
    /\ processPhase = "draining"
    /\ processPhase' = "exited"
    /\ UNCHANGED <<intervalVars, historyVars, outsideSync, isRunning, lastSyncTime, now,
                   punches, cycles, timers, cyclesStarted, startCalls, fetched>>

\* One second passes.
Tick ==
    /\ processPhase # "exited"
    /\ now < MaxTime
    /\ now' = now + 1
    /\ UNCHANGED <<intervalVars, historyVars, outsideSync, isRunning, lastSyncTime,
                   punches, cycles, timers, cyclesStarted, startCalls, fetched,
                   processPhase>>

\* The device records a punch stamped with the current second.
Punch ==
    /\ processPhase # "exited"
    /\ now \notin punches
    /\ punches' = punches \cup { now }
    /\ UNCHANGED <<intervalVars, historyVars, outsideSync, isRunning, lastSyncTime, now,
                   cycles, timers, cyclesStarted, startCalls, fetched, processPhase>>

FetchEmptySettles == \E c \in cycles, ok \in BOOLEAN, h \in LifeHours : FetchEmpty(c, ok, h)
FetchRecordsSettles == \E c \in cycles : FetchRecords(c)
FetchRejects == \E c \in cycles, h \in LifeHours : FetchThrows(c, h)
ProcessSettles == \E c \in cycles, h \in LifeHours : ProcessSettle(c, h)

Next ==
    \/ Start
    \/ Stop
    \/ TimerFire
    \/ FetchEmptySettles
    \/ FetchRecordsSettles
    \/ FetchRejects
    \/ ProcessSettles
    \/ Shutdown
    \/ ShutdownExit
    \/ Tick
    \/ Punch

Spec == Init /\ [][Next]_vars

\* C2: lastSyncTime never takes a value earlier than one it held before.
C2_CursorNeverDecreases == [][lastSyncTime' >= lastSyncTime]_vars

\* C4: at most one syncCycle is between its fetch call and its end, and at
\* most one next-cycle timer is pending.
C4_SingleCycleSingleTimer == Cardinality(cycles) <= 1 /\ timers <= 1

\* C5: a cycle in flight when stop is requested runs to its end; the process
\* does not end while a cycle is still in flight.  Stated for the runs in
\* which start() is called once, as Application.start does.
C5_NoCycleAborted == (startCalls <= 1 /\ processPhase = "exited") => cycles = {}

\* C6: the cursor is never advanced past a source record that no fetch has
\* returned: every record stamped before the cursor was in the result of a
\* successful fetch.  Stated for the runs in which start() is called once.
C6_NoRecordSkipped ==
    startCalls <= 1 => \A t \in punches : t < lastSyncTime => t \in fetched

(***************************************************************************)
(* SpecToken: ZohoOAuthService.  Each caller makes one call of             *)
(* getValidAccessToken; a call is suspended at the POST of                 *)
(* refreshAccessToken (pc "posting") and at saveTokensToEnv (pc "saving"). *)
(* Time is counted in minutes.                                             *)
(***************************************************************************)
Callers == 1 .. NumCallers

\* bufferTime = 5 * 60 * 1000 ms
BufferMinutes == 5

\* expires_in values the OAuth server may answer, in minutes
ExpiresInChoices == { 3, 60 }

NoCall ==
    [ pc |-> "idle", got |-> 0, info |-> [ accessToken |-> 0, expiresAt |-> 0 ],
      sent |-> FALSE, during |-> FALSE, joined |-> 0 ]

isTokenValid ==
    IF accessToken = 0 THEN FALSE
    ELSE IF tokenExpiresAt = 0 THEN TRUE
    ELSE authNow < tokenExpiresAt - BufferMinutes

RefreshesInFlight == { c \in Callers : callers[c].pc = "posting" }

\* The token state loaded from the environment at construction.
InitToken ==
    /\ cfg = DefaultConfig
    /\ ServiceConstructed
    /\ ClientsIdle
    /\ TwinIdle
    /\ SyncIdle
    /\ BatchIdle
    /\ accessToken \in { 0, 1 }
    /\ refreshToken \in { 0, 1 }
    /\ tokenExpiresAt \in { 0, 4, 60 }
    /\ authNow = 1
    /\ callers = [ c \in Callers |-> NoCall ]
    /\ tokenRequests = 0
    /\ issued = accessToken
    /\ envFile = [ accessToken |-> accessToken, expiresAt |-> tokenExpiresAt ]

\* getValidAccessToken with a usable token (lines 193-195).
ReturnStored(c) ==
    /\ callers[c].pc = "idle"
    /\ isTokenValid
    /\ callers' = [ callers EXCEPT ![c] = [ @ EXCEPT !.pc = "done", !.got = accessToken ] ]
    /\ UNCHANGED <<accessToken, refreshToken, tokenExpiresAt, authNow, tokenRequests,
                   issued, envFile>>

\* getValidAccessToken without a usable token: refreshAccessToken sends its
\* POST (lines 197-199, 112-137).  Nothing records that a refresh is under way.
SendRefresh(c) ==
    /\ callers[c].pc = "idle"
    /\ ~isTokenValid
    /\ refreshToken # 0
    /\ tokenRequests' = tokenRequests + 1
    /\ callers' = [ callers EXCEPT ![c] =
           [ @ EXCEPT !.pc = "posting", !.sent = TRUE,
                      !.during = (RefreshesInFlight # {}),
                      !.joined = IF RefreshesInFlight = {} THEN 0
                                 ELSE CHOOSE d \in RefreshesInFlight : TRUE ] ]
    /\ UNCHANGED <<accessToken, refreshToken, tokenExpiresAt, authNow, issued, envFile>>

\* getValidAccessToken sending a refresh without a refresh token (used to
\* test the checks)
FailNoGrantPosting(c) ==
    /\ callers[c].pc = "idle"
    /\ ~isTokenValid
    /\ refreshToken = 0
    /\ tokenRequests' = tokenRequests + 1
    /\ callers' = [ callers EXCEPT ![c] = [ @ EXCEPT !.pc = "failed" ] ]
    /\ UNCHANGED <<accessToken, refreshToken, tokenExpiresAt, authNow, issued, envFile>>

\* getValidAccessToken with neither a usable token nor a refresh token
\* (line 207).
FailNoGrant(c) ==
    /\ callers[c].pc = "idle"
    /\ ~isTokenValid
    /\ refreshToken = 0
    /\ callers' = [ callers EXCEPT ![c] = [ @ EXCEPT !.pc = "failed" ] ]
    /\ UNCHANGED <<accessToken, refreshToken, tokenExpiresAt, authNow, tokenRequests,
                   issued, envFile>>

\* The token endpoint answers with a new access token (lines 139-156).
RefreshAnswered(c, expiresIn) ==
    /\ callers[c].pc = "posting"
    /\ issued' = issued + 1
    /\ accessToken' = issued + 1
    /\ tokenExpiresAt' = authNow + expiresIn
    /\ callers' = [ callers EXCEPT ![c] =
           [ @ EXCEPT !.pc = "saving",
                      !.info = [ accessToken |-> issued + 1,
                                 expiresAt |-> authNow + expiresIn ] ] ]
    /\ UNCHANGED <<refreshToken, authNow, tokenRequests, envFile>>

\* The POST fails or answers without access_token (lines 160-167, 201-204).
RefreshFailed(c) ==
    /\ callers[c].pc = "posting"
    /\ callers' = [ callers EXCEPT ![c] = [ @ EXCEPT !.pc = "failed" ] ]
    /\ UNCHANGED <<accessToken, refreshToken, tokenExpiresAt, authNow, tokenRequests,
                   issued, envFile>>

\* saveTokensToEnv has written the file; the call returns tokenInfo.accessToken.
SaveDone(c) ==
    /\ callers[c].pc = "saving"
    /\ envFile' = callers[c].info
    /\ callers' = [ callers EXCEPT ![c] =
           [ @ EXCEPT !.pc = "done", !.got = callers[c].info.accessToken ] ]
    /\ UNCHANGED <<accessToken, refreshToken, tokenExpiresAt, authNow, tokenRequests,
                   issued>>

\* saveTokensToEnv throws (lines 250-253): the refresh is reported as failed.
SaveFailed(c) ==
    /\ callers[c].pc = "saving"
    /\ callers' = [ callers EXCEPT ![c] = [ @ EXCEPT !.pc = "failed" ] ]
    /\ UNCHANGED <<accessToken, refreshToken, tokenExpiresAt, authNow, tokenRequests,
                   issued, envFile>>

AuthTick ==
    /\ authNow < MaxAuthTime
    /\ authNow' = authNow + 1
    /\ UNCHANGED <<accessToken, refreshToken, tokenExpiresAt, callers, tokenRequests,
                   issued, envFile>>

CallReturnsStored == (\E c \in Callers : ReturnStored(c)) /\ UNCHANGED outsideToken
CallSendsRefresh == (\E c \in Callers : SendRefresh(c)) /\ UNCHANGED outsideToken
CallFailsNoGrant == (\E c \in Callers : FailNoGrant(c)) /\ UNCHANGED outsideToken
RefreshAnswers ==
    (\E c \in Callers, e \in ExpiresInChoices : RefreshAnswered(c, e)) /\ UNCHANGED outsideToken
RefreshFails == (\E c \in Callers : RefreshFailed(c)) /\ UNCHANGED outsideToken
SaveSucceeds == (\E c \in Callers : SaveDone(c)) /\ UNCHANGED outsideToken
SaveFails == (\E c \in Callers : SaveFailed(c)) /\ UNCHANGED outsideToken
ClockAdvances == AuthTick /\ UNCHANGED outsideToken

NextToken ==
    \/ CallReturnsStored
    \/ CallSendsRefresh
    \/ CallFailsNoGrant
    \/ RefreshAnswers
    \/ RefreshFails
    \/ SaveSucceeds
    \/ SaveFails
    \/ ClockAdvances

SpecToken == InitToken /\ [][NextToken]_vars

\* C3: a caller that invokes getValidAccessToken while the stored token is
\* not usable and a refresh is in flight sends no request of its own (one
\* refresh request serves them all) and receives the access token that the
\* refresh in flight delivers.
C3_SingleFlightRefresh ==
    \A c \in Callers :
        callers[c].during =>
            /\ ~callers[c].sent
            /\ Cardinality(RefreshesInFlight) <= 1
            /\ \A d \in Callers :
                   (callers[c].joined = d /\ callers[c].pc = "done" /\ callers[d].pc = "done")
                       => callers[c].got = callers[d].got

(***************************************************************************)
(* SpecBatch: one call of processTransactions.  A record is reduced to     *)
(* what transformTransaction looks at: whether its employee code has a     *)
(* mapping and whether its timestamp parses.                               *)
(***************************************************************************)
OkRecord == [ mapped |-> TRUE, timeOk |-> TRUE ]
UnmappedRecord == [ mapped |-> FALSE, timeOk |-> TRUE ]
BadTimeRecord == [ mapped |-> TRUE, timeOk |-> FALSE ]

Kinds == { OkRecord, UnmappedRecord, BadTimeRecord }

\* every list of 1 .. MaxShort records
ShortLists == UNION { [ 1 .. n -> Kinds ] : n \in 1 .. MaxShort }

\* 10 records of which exactly 2 have an employee code without mapping
ScenarioLists ==
    { [ i \in 1 .. 10 |-> IF i \in pq THEN UnmappedRecord ELSE OkRecord ] :
        pq \in { s \in SUBSET (1 .. 10) : Cardinality(s) = 2 } }

\* 11 records (batches of 5) with at most one invalid record
MediumLists ==
    { [ i \in 1 .. 11 |-> IF i = p THEN k ELSE OkRecord ] :
        p \in { 1, 5, 6, 11 }, k \in Kinds }

\* 51 records (batches of the configured size) of which the 10th, the 11th
\* and the last are valid
LargeLists ==
    { [ i \in 1 .. 51 |-> IF i \in { 10, 11, 51 } THEN OkRecord ELSE UnmappedRecord ] }

RecordLists == ShortLists \cup ScenarioLists \cup MediumLists \cup LargeLists

\* config.sync.batchSize
ConfiguredBatchSize == 10

\* Mutant: the configured batch size whatever the number of records.
calculateBatchSizeFlat(transactionCount) == ConfiguredBatchSize

calculateBatchSize(transactionCount) ==
    IF transactionCount <= 10 THEN 1
    ELSE IF transactionCount <= 50 THEN 5
    ELSE ConfiguredBatchSize

\* transformTransaction: "null" without a mapping or without a valid
\* timestamp, otherwise the punch data.
\* Mutant: the timestamp is not looked at.
transformTransactionLax(transaction) ==
    IF ~transaction.mapped THEN "null" ELSE "punchData"

transformTransaction(transaction) ==
    IF ~transaction.mapped THEN "null"
    ELSE IF ~transaction.timeOk THEN "null"
    ELSE "punchData"

batchSize == calculateBatchSize(Len(transactions))

\* transactions.slice(i, i + batchSize)
CurrentBatch ==
    { i \in 1 .. Len(transactions) : batchFrom <= i /\ i < batchFrom + batchSize }

InitBatch ==
    /\ cfg = DefaultConfig
    /\ ServiceConstructed
    /\ ClientsIdle
    /\ TwinIdle
    /\ SyncIdle
    /\ TokenIdle
    /\ transactions \in RecordLists
    /\ batchPc = "idle"
    /\ batchFrom = 1
    /\ inFlight = {}
    /\ settled = <<>>
    /\ results = [ synced |-> 0, failed |-> 0 ]
    /\ syncStats = [ successful |-> 0, failed |-> 0 ]
    /\ sent = {}
    /\ skipsLogged = 0

\* Mutant: the first invalid record of a batch ends the loop of processBatch.
BatchBeginAborting ==
    /\ batchPc \in { "idle", "delay" }
    /\ LET bad == { i \in CurrentBatch : transformTransaction(transactions[i]) = "null" }
           valid == { i \in CurrentBatch \ bad : \A j \in bad : i < j }
       IN  /\ inFlight' = valid
           /\ sent' = sent \cup valid
           /\ skipsLogged' = skipsLogged + Cardinality(CurrentBatch \ valid)
           /\ settled' = [ i \in CurrentBatch \ valid |-> FALSE ]
    /\ batchPc' = "batch"
    /\ UNCHANGED <<transactions, batchFrom, results, syncStats>>

\* processBatch up to "await Promise.allSettled": processSingleTransaction
\* runs for every record of the batch up to its first await; a record whose
\* transform is null is logged and its promise is fulfilled with false.
BatchBegin ==
    /\ batchPc \in { "idle", "delay" }
    /\ LET valid == { i \in CurrentBatch : transformTransaction(transactions[i]) # "null" }
       IN  /\ inFlight' = valid
           /\ sent' = sent \cup valid
           /\ skipsLogged' = skipsLogged + Cardinality(CurrentBatch \ valid)
           /\ settled' = [ i \in CurrentBatch \ valid |-> FALSE ]
    /\ batchPc' = "batch"
    /\ UNCHANGED <<transactions, batchFrom, results, syncStats>>

\* zohoService.sendAttendance settles for one record (lines 141-156).
DispatchSettles(i, outcome) ==
    /\ batchPc = "batch"
    /\ i \in inFlight
    /\ inFlight' = inFlight \ { i }
    /\ syncStats' =
           IF outcome = "success"
           THEN [ syncStats EXCEPT !.successful = @ + 1 ]
           ELSE [ syncStats EXCEPT !.failed = @ + 1 ]
    /\ settled' = [ j \in DOMAIN settled \cup { i } |->
                      IF j = i THEN outcome = "success" ELSE settled[j] ]
    /\ UNCHANGED <<transactions, batchPc, batchFrom, results, sent, skipsLogged>>

\* Promise.allSettled resolves: processBatch counts (lines 121-127),
\* processTransactions adds up and either waits rateLimitDelay or returns.
BatchEnd ==
    /\ batchPc = "batch"
    /\ inFlight = {}
    /\ results' =
           [ synced |-> results.synced + Cardinality({ i \in DOMAIN settled : settled[i] }),
             failed |-> results.failed + Cardinality({ i \in DOMAIN settled : ~settled[i] }) ]
    /\ settled' = <<>>
    /\ IF batchFrom + batchSize <= Len(transactions)
       THEN batchPc' = "delay" /\ batchFrom' = batchFrom + batchSize
       ELSE batchPc' = "done" /\ UNCHANGED batchFrom
    /\ UNCHANGED <<transactions, inFlight, syncStats, sent, skipsLogged>>

SinkOutcomes == { "success", "failure", "throw" }

BatchStarts == BatchBegin /\ UNCHANGED outsideBatch
DispatchSettled ==
    (\E i \in inFlight, o \in SinkOutcomes : DispatchSettles(i, o)) /\ UNCHANGED outsideBatch
BatchCompletes == BatchEnd /\ UNCHANGED outsideBatch

NextBatch == BatchStarts \/ DispatchSettled \/ BatchCompletes

SpecBatch == InitBatch /\ [][NextBatch]_vars

Unmapped == { i \in 1 .. Len(transactions) : ~transactions[i].mapped }

\* C10: when processTransactions has returned, synced + failed equals the
\* number of records that passed transformation (the dispatches attempted);
\* for 10 records of which 2 have no mapping, 8 events were sent to the sink,
\* 2 skips were logged and synced + failed = 8.
C10_OutcomeCountsDispatches ==
    batchPc = "done" =>
        /\ results.synced + results.failed = Cardinality(sent)
        /\ (transactions \in ScenarioLists) =>
               /\ Cardinality(sent) = 8
               /\ skipsLogged = 2
               /\ results.synced + results.failed = 8

(***************************************************************************)
(* SpecSink: ZohoService.sendAttendance for one attendance event.          *)
(* The sink answers the k-th post for the event with sinkScript[k].  A     *)
(* reply is [status, retryAfter, zohoErr]: status 0 is a request that got  *)
(* no response, retryAfter 0 is a reply without a Retry-After header, and  *)
(* zohoErr tells whether the body carries a Zoho {code, message} error.    *)
(***************************************************************************)
ZohoMaxRetries == 3
ZohoRateLimitDelay == 100
ZohoBackoffCap == 30000

Reply(s, ra, ze) == [ status |-> s, retryAfter |-> ra, zohoErr |-> ze ]

SinkReplies ==
    { Reply(200, 0, FALSE), Reply(204, 0, FALSE), Reply(401, 0, FALSE),
      Reply(403, 0, FALSE), Reply(404, 0, FALSE), Reply(429, 30, FALSE),
      Reply(429, 0, FALSE), Reply(429, 30, TRUE), Reply(500, 0, FALSE),
      Reply(0, 0, FALSE) }

\* One reply for each post that a call can make.
SinkScripts == [ 1 .. ZohoMaxRetries + 1 -> SinkReplies ]

TokenModes == { "valid", "expired", "unavailable" }

\* The error axios rejects with for a reply that is not 2xx.
AxiosError(r) ==
    [ response |-> r.status # 0, request |-> TRUE, status |-> r.status,
      retryAfter |-> r.retryAfter, zohoErr |-> r.zohoErr ]

\* The error thrown by getValidAccessToken: a plain Error.
TokenError ==
    [ response |-> FALSE, request |-> FALSE, status |-> 0, retryAfter |-> 0,
      zohoErr |-> FALSE ]

Message(kind, hint) == [ kind |-> kind, hint |-> hint ]

\* handleZohoError: the message returned for an error
handleZohoError(error) ==
    IF error.response
    THEN IF error.zohoErr THEN Message("Zoho error", 0)
         ELSE IF error.status = 429 THEN Message("Rate limited", error.retryAfter)
         ELSE IF error.status = 401 THEN Message("Authentication failed", 0)
         ELSE IF error.status = 403 THEN Message("Access forbidden", 0)
         ELSE IF error.status = 404 THEN Message("API endpoint not found", 0)
         ELSE IF error.status >= 500 THEN Message("Zoho server error", 0)
         ELSE Message("HTTP", 0)
    ELSE IF error.request THEN Message("Network error", 0)
    ELSE Message("Request error", 0)

\* handleZohoError: its effect on this.rateLimitReset
rateLimitResetAfter(error, old) ==
    IF error.response /\ ~error.zohoErr /\ error.status = 429
       /\ error.retryAfter # 0
    THEN error.retryAfter
    ELSE old

\* Mutant: every error is retried.
Zoho_shouldRetryAlways(error) == TRUE

\* ZohoService.shouldRetry
Zoho_shouldRetry(error) ==
    IF ~error.response THEN TRUE
    ELSE error.status >= 500 \/ error.status = 429

RECURSIVE Pow2(_)
Pow2(k) == IF k = 0 THEN 1 ELSE 2 * Pow2(k - 1)

\* ZohoService.calculateBackoff
Zoho_calculateBackoff(rc) ==
    LET d == ZohoRateLimitDelay * Pow2(rc)
    IN  IF d < ZohoBackoffCap THEN d ELSE ZohoBackoffCap

Failure(msg) == [ returned |-> TRUE, success |-> FALSE, error |-> msg ]
Success == [ returned |-> TRUE, success |-> TRUE, error |-> Message("", 0) ]

InitSink ==
    /\ cfg = DefaultConfig
    /\ ServiceConstructed
    /\ PeakIdle
    /\ MoreIdle
    /\ TwinIdle
    /\ SyncIdle
    /\ TokenIdle
    /\ BatchIdle
    /\ SourceIdle
    /\ AppIdle
    /\ RevokeIdle
    /\ sinkScript \in SinkScripts
    /\ tokenMode \in TokenModes
    /\ sinkPc = "idle"
    /\ retryCount = 0
    /\ sinkPosts = 0
    /\ sinkRefreshes = 0
    /\ sinkDelays = <<>>
    /\ sinkResult = [ returned |-> FALSE ]
    /\ rateLimitReset = 0
    /\ zohoStats = [ requestCount |-> 0, failedRequests |-> 0 ]

\* The catch block of sendAttendance for the call with parameter rc.
SinkCatch(error, rc, stats) ==
    /\ zohoStats' = [ stats EXCEPT !.failedRequests = @ + 1 ]
    /\ rateLimitReset' = rateLimitResetAfter(error, rateLimitReset)
    /\ IF Zoho_shouldRetry(error) /\ rc < ZohoMaxRetries
       THEN /\ sinkPc' = "delay"
            /\ sinkDelays' = Append(sinkDelays, Zoho_calculateBackoff(rc))
            /\ UNCHANGED sinkResult
       ELSE /\ sinkPc' = "done"
            /\ sinkResult' = Failure(handleZohoError(error))
            /\ UNCHANGED sinkDelays

\* sendAttendance(punchData, rc) from its entry to the await of axios.post,
\* or through the catch block when getValidAccessToken throws.
SinkAttempt(rc) ==
    LET stats == [ zohoStats EXCEPT !.requestCount = @ + 1 ]
    IN  /\ retryCount' = rc
        /\ IF tokenMode = "unavailable"
           THEN /\ SinkCatch(TokenError, rc, stats)
                /\ UNCHANGED <<tokenMode, sinkPosts, sinkRefreshes>>
           ELSE /\ tokenMode' = "valid"
                /\ sinkRefreshes' =
                       IF tokenMode = "expired" THEN sinkRefreshes + 1
                       ELSE sinkRefreshes
                /\ sinkPosts' = sinkPosts + 1
                /\ sinkPc' = "post"
                /\ zohoStats' = stats
                /\ UNCHANGED <<sinkDelays, sinkResult, rateLimitReset>>
        /\ UNCHANGED sinkScript

\* processSingleTransaction calls sendAttendance(punchData).
SendAttendance ==
    /\ sinkPc = "idle"
    /\ SinkAttempt(0)
    /\ UNCHANGED outsideSink

\* The backoff delay has elapsed: sendAttendance(punchData, retryCount + 1).
RetryAfterBackoff ==
    /\ sinkPc = "delay"
    /\ SinkAttempt(retryCount + 1)
    /\ UNCHANGED outsideSink

\* The sink has answered the post (or the request has failed).
SinkAnswers ==
    /\ sinkPc = "post"
    /\ LET r == sinkScript[sinkPosts]
       IN  IF r.status = 200
           THEN /\ sinkPc' = "done"
                /\ sinkResult' = Success
                /\ UNCHANGED <<zohoStats, rateLimitReset, sinkDelays>>
           ELSE IF r.status \in 201 .. 299
           THEN /\ sinkPc' = "done"
                /\ sinkResult' = Failure(Message("HTTP", 0))
                /\ zohoStats' = [ zohoStats EXCEPT !.failedRequests = @ + 1 ]
                /\ UNCHANGED <<rateLimitReset, sinkDelays>>
           ELSE SinkCatch(AxiosError(r), retryCount, zohoStats)
    /\ UNCHANGED <<sinkScript, tokenMode, retryCount, sinkPosts, sinkRefreshes>>
    /\ UNCHANGED outsideSink

NextSink == SendAttendance \/ RetryAfterBackoff \/ SinkAnswers

SpecSink == InitSink /\ [][NextSink]_vars

\* C11: when the sink answers 401 to the first post of an event and 200 to
\* the next one, the finished sendAttendance call has performed exactly one
\* token refresh and one retry and reports success.
C11_RefreshAndRetryOn401 ==
    ( /\ sinkPc = "done"
      /\ sinkPosts >= 1
      /\ sinkScript[1].status = 401
      /\ sinkScript[2].status = 200 )
    => ( /\ sinkResult.success
         /\ sinkRefreshes = 1
         /\ sinkPosts = 2 )

\* C12: when the sink answers 429 with Retry-After: 30 to the post of an
\* event, sendAttendance returns a rate-limit failure that carries the 30
\* seconds and the event is posted once only.
C12_NoRetryOn429 ==
    ( /\ sinkPc = "done"
      /\ sinkPosts >= 1
      /\ sinkScript[1] = Reply(429, 30, FALSE) )
    => ( /\ ~sinkResult.success
         /\ sinkResult.error = Message("Rate limited", 30)
         /\ sinkPosts = 1 )

(***************************************************************************)
(* SpecSource: one call of ESSLService.getTransactions.                    *)
(* A combination is the JSON call or a SOAP {action, version} pair.  The   *)
(* source answers a combination of `accepts` with 200 and data, one of     *)
(* `blank` with a 2xx that carries no usable data, and rejects every other *)
(* one with an error status or with no response at all.                    *)
(***************************************************************************)
EsslMaxRetries == 3
EsslBaseDelay == 1000
EsslBackoffCap == 15000

Json(action) == [ dialect |-> "JSON", action |-> action, version |-> "none" ]
Soap(action, version) == [ dialect |-> "SOAP", action |-> action, version |-> version ]

Versions == { "current", "earlier" }

\* versionsToTry in the opposite order (used to test the checks)
versionsReversed == <<"1.2", "1.1">>

versionsToTry == <<"1.1", "1.2">>

\* methodsToTry (current version) / actionsToTry (earlier version)
actionsToTry(v) ==
    IF v = "current" THEN <<"GetDeviceLogData">>
    ELSE <<"GetTransactionData", "GetTransactionDataJSON">>

\* for (act of actionsToTry) for (ver of versionsToTry)
RECURSIVE SoapPairs(_)
SoapPairs(actions) ==
    IF actions = <<>> THEN <<>>
    ELSE [ i \in 1 .. Len(versionsToTry) |-> Soap(Head(actions), versionsToTry[i]) ]
         \o SoapPairs(Tail(actions))

\* The requests one attempt can make, in the order of the code.
Combinations(v) ==
    <<Json(IF v = "current" THEN "GetDeviceLogData" ELSE "GetTransactionData")>>
    \o SoapPairs(actionsToTry(v))

Range(s) == { s[i] : i \in 1 .. Len(s) }

HttpError(s) == [ kind |-> "http", status |-> s ]
NetworkError == [ kind |-> "net", status |-> 0 ]
UnexpectedResponse == [ kind |-> "unexpected", status |-> 0 ]
OkReply == [ kind |-> "ok", status |-> 200 ]
BlankReply == [ kind |-> "blank", status |-> 200 ]

Rejections == { HttpError(404), HttpError(429), HttpError(500), NetworkError }

RepliesTo(c) ==
    IF c \in accepts THEN { OkReply }
    ELSE IF c \in blank THEN { BlankReply }
    ELSE Rejections

Is4xx(e) == e.kind = "http" /\ e.status \in 400 .. 499 /\ e.status # 429

\* ESSLService.shouldRetry with every error retried (used to test the checks)
ESSL_shouldRetryAlways(error) == TRUE

\* ESSLService.shouldRetry
ESSL_shouldRetry(error) ==
    IF error.kind # "http" THEN TRUE
    ELSE error.status >= 500 \/ error.status = 429

\* ESSLService.calculateBackoff
ESSL_calculateBackoff(rc) ==
    LET d == EsslBaseDelay * Pow2(rc)
    IN  IF d < EsslBackoffCap THEN d ELSE EsslBackoffCap

\* The list returned for a 200 response with data.
Transactions(v, shape) ==
    IF shape = "array" THEN "payload"
    ELSE IF v = "current" /\ shape = "wrapper" THEN "unwrapped"
    ELSE "empty"

Returned(ok, list) ==
    [ returned |-> TRUE, threw |-> FALSE, ok |-> ok, list |-> list ]

\* After the loop without the failure counter (used to test the checks)
AfterLoopUncounted(stats) == stats

\* this.failedRequests++ after the attempt loop
AfterLoop(stats) == [ stats EXCEPT !.failedRequests = @ + 1 ]

InitSource ==
    /\ cfg = DefaultConfig
    /\ ServiceConstructed
    /\ PeakIdle
    /\ MoreIdle
    /\ TwinIdle
    /\ SyncIdle
    /\ TokenIdle
    /\ BatchIdle
    /\ SinkIdle
    /\ AppIdle
    /\ RevokeIdle
    /\ esslVersion \in Versions
    /\ accepts \in SUBSET Range(Combinations(esslVersion))
    /\ blank \in SUBSET (Range(Combinations(esslVersion)) \ accepts)
    /\ payload \in { "array", "wrapper", "other" }
    /\ srcPc = "idle"
    /\ attempt = 0
    /\ srcCombo = 0
    /\ sentSeq = <<>>
    /\ succeededAt = 0
    /\ lastError = NoError
    /\ roundErrors = <<>>
    /\ srcDelays = <<>>
    /\ saw4xx = FALSE
    /\ requestAfter4xx = FALSE
    /\ wsdlFetches = 0
    /\ soapMeta \in BOOLEAN
    /\ esslStats = [ requestCount |-> 0, failedRequests |-> 0 ]
    /\ sourceResult = [ returned |-> FALSE ]

\* axios.post of combination k; s4: a 4xx other than 429 was seen before.
SendCombo(k, s4) ==
    /\ srcPc' = "request"
    /\ srcCombo' = k
    /\ sentSeq' = Append(sentSeq, Combinations(esslVersion)[k])
    /\ requestAfter4xx' = (requestAfter4xx \/ s4)

\* The attempt loop is left: failedRequests++ and return [].
LeaveLoop ==
    /\ srcPc' = "done"
    /\ esslStats' = AfterLoop(esslStats)
    /\ sourceResult' = Returned(FALSE, "empty")

\* The attempt ends with lastError = err: retry after a backoff, or break.
EndAttempt(err) ==
    /\ lastError' = err
    /\ roundErrors' = Append(roundErrors, err)
    /\ IF ESSL_shouldRetry(err)
       THEN /\ srcPc' = "delay"
            /\ srcDelays' = Append(srcDelays, ESSL_calculateBackoff(attempt))
            /\ UNCHANGED <<esslStats, sourceResult>>
       ELSE /\ LeaveLoop
            /\ UNCHANGED srcDelays
    /\ UNCHANGED <<srcCombo, sentSeq, requestAfter4xx, wsdlFetches>>

\* getTransactions from its entry to the await of the JSON request.
CallGetTransactions ==
    /\ srcPc = "idle"
    /\ esslStats' = [ esslStats EXCEPT !.requestCount = @ + 1 ]
    /\ attempt' = 0
    /\ SendCombo(1, saw4xx)
    /\ UNCHANGED <<esslVersion, accepts, blank, payload, succeededAt, lastError,
                   roundErrors, srcDelays, saw4xx, wsdlFetches, soapMeta,
                   sourceResult>>
    /\ UNCHANGED outsideSource

\* The source has answered the awaited request with r.
SourceAnswer(r) ==
    LET combos == Combinations(esslVersion)
        s4 == saw4xx \/ Is4xx(r)
    IN  /\ srcPc = "request"
        /\ saw4xx' = s4
        /\ succeededAt' =
               IF r.kind = "ok" /\ succeededAt = 0 THEN Len(sentSeq)
               ELSE succeededAt
        /\ IF r.kind = "ok"
           THEN /\ srcPc' = "done"
                /\ sourceResult' = Returned(TRUE, Transactions(esslVersion, payload))
                /\ UNCHANGED <<lastError, roundErrors, srcDelays, srcCombo, sentSeq,
                               requestAfter4xx, wsdlFetches, esslStats>>
           ELSE IF r.kind = "blank"
           THEN EndAttempt(UnexpectedResponse)
           ELSE IF srcCombo = 1
           THEN \* catch (jsonError): fall back to SOAP
                /\ IF esslVersion = "current" /\ ~soapMeta
                   THEN /\ srcPc' = "wsdl"
                        /\ wsdlFetches' = wsdlFetches + 1
                        /\ requestAfter4xx' = (requestAfter4xx \/ s4)
                        /\ UNCHANGED <<srcCombo, sentSeq>>
                   ELSE /\ SendCombo(2, s4)
                        /\ UNCHANGED wsdlFetches
                /\ UNCHANGED <<lastError, roundErrors, srcDelays, esslStats,
                               sourceResult>>
           ELSE IF srcCombo < Len(combos)
           THEN /\ lastError' = r
                /\ SendCombo(srcCombo + 1, s4)
                /\ UNCHANGED <<roundErrors, srcDelays, wsdlFetches, esslStats,
                               sourceResult>>
           ELSE EndAttempt(r)
        /\ UNCHANGED <<esslVersion, accepts, blank, payload, attempt, soapMeta>>
        /\ UNCHANGED outsideSource

\* ensureSoapMeta: the GET ?wsdl has settled; found: a namespace was read.
WsdlSettle(found) ==
    /\ srcPc = "wsdl"
    /\ soapMeta' = found
    /\ SendCombo(2, saw4xx)
    /\ UNCHANGED <<esslVersion, accepts, blank, payload, attempt, succeededAt,
                   lastError, roundErrors, srcDelays, saw4xx, wsdlFetches,
                   esslStats, sourceResult>>
    /\ UNCHANGED outsideSource

\* The backoff delay has elapsed: continue with attempt + 1.
BackoffElapses ==
    /\ srcPc = "delay"
    /\ attempt' = attempt + 1
    /\ IF attempt + 1 < EsslMaxRetries
       THEN /\ SendCombo(1, saw4xx)
            /\ UNCHANGED <<esslStats, sourceResult>>
       ELSE /\ LeaveLoop
            /\ UNCHANGED <<srcCombo, sentSeq, requestAfter4xx>>
    /\ UNCHANGED <<esslVersion, accepts, blank, payload, succeededAt, lastError,
                   roundErrors, srcDelays, saw4xx, wsdlFetches, soapMeta>>
    /\ UNCHANGED outsideSource

SourceAnswers ==
    /\ srcPc = "request"
    /\ \E r \in RepliesTo(Combinations(esslVersion)[srcCombo]) : SourceAnswer(r)
WsdlSettles == \E found \in BOOLEAN : WsdlSettle(found)

NextSource ==
    CallGetTransactions \/ SourceAnswers \/ WsdlSettles \/ BackoffElapses

SpecSource == InitSource /\ [][NextSource]_vars

\* The combinations as the claims declare them.
DeclaredOrder ==
    IF esslVersion = "current"
    THEN << Json("GetDeviceLogData"), Soap("GetDeviceLogData", "1.1"),
            Soap("GetDeviceLogData", "1.2") >>
    ELSE << Json("GetTransactionData"), Soap("GetTransactionData", "1.1"),
            Soap("GetTransactionData", "1.2"),
            Soap("GetTransactionDataJSON", "1.1"),
            Soap("GetTransactionDataJSON", "1.2") >>

\* Number of attempts started: each one begins with the JSON call.
AttemptsStarted ==
    Cardinality({ i \in 1 .. Len(sentSeq) : sentSeq[i].dialect = "JSON" })

\* C13: the combinations are requested in the declared order (the JSON call,
\* then the SOAP pairs in list order, 1.1 before 1.2), nothing is requested
\* after the first accepted request, and a source that accepts only the 3rd
\* combination and rejects the others is asked exactly 3 times before the
\* call succeeds.
C13_NegotiationOrder ==
    /\ \A i \in 1 .. Len(sentSeq) :
          \/ sentSeq[i] = DeclaredOrder[1]
          \/ /\ i > 1
             /\ \E k \in 2 .. Len(DeclaredOrder) :
                   sentSeq[i] = DeclaredOrder[k] /\ sentSeq[i - 1] = DeclaredOrder[k - 1]
    /\ succeededAt \in { 0, Len(sentSeq) }
    /\ ( srcPc = "done" /\ accepts = { DeclaredOrder[3] } /\ blank = {} )
       => ( sourceResult.ok /\ sentSeq = SubSeq(DeclaredOrder, 1, 3) /\ succeededAt = 3 )

C13_Witness ==
    /\ srcPc = "done"
    /\ accepts = { DeclaredOrder[3] }
    /\ blank = {}
    /\ Len(sentSeq) = 3
    /\ sourceResult.ok

\* C14: within one getTransactions call each combination is requested at
\* most once.
C14_EachCombinationOnce ==
    \A i, j \in 1 .. Len(sentSeq) : sentSeq[i] = sentSeq[j] => i = j

Retryable(e) ==
    \/ e.kind = "net"
    \/ e.kind = "http" /\ (e.status >= 500 \/ e.status = 429)

\* C15 as stated: at most maxRetries attempts; an attempt is followed by
\* another one only after a network error or a 5xx/429 response; after a 4xx
\* reply other than 429 no request is sent and no backoff is waited.
C15_RetryPolicyAsClaimed ==
    /\ AttemptsStarted <= EsslMaxRetries
    /\ \A i \in 1 .. Len(roundErrors) : i < AttemptsStarted => Retryable(roundErrors[i])
    /\ ~requestAfter4xx
    /\ \A i \in 1 .. Len(roundErrors) :
          Is4xx(roundErrors[i]) => Len(srcDelays) = i - 1

\* C15: at most maxRetries attempts are made; an attempt is followed by
\* another one only when the error it ended with (the error of its last
\* request, or the unexpected-response error of a 2xx without usable data)
\* has no response or is a 5xx/429 response; an attempt that ends with a 4xx
\* other than 429 is the last one: the call returns at once, without a
\* backoff delay and without a further request.
C15_RetryPolicy ==
    /\ AttemptsStarted <= EsslMaxRetries
    /\ \A i \in 1 .. Len(roundErrors) :
          i < AttemptsStarted
          => ( Retryable(roundErrors[i]) \/ roundErrors[i].kind = "unexpected" )
    /\ \A i \in 1 .. Len(roundErrors) :
          Is4xx(roundErrors[i])
          => ( /\ i = Len(roundErrors)
               /\ i = AttemptsStarted
               /\ Len(srcDelays) = i - 1
               /\ srcPc = "done"
               /\ sourceResult = Returned(FALSE, "empty") )

C15_Witness ==
    /\ srcPc = "done"
    /\ Len(roundErrors) = 2
    /\ roundErrors[1] = HttpError(500)
    /\ roundErrors[2] = HttpError(404)
    /\ srcDelays = <<1000>>

\* C16: getTransactions terminates without throwing: the number of requests
\* and delays is bounded and a step is possible until it has returned; when
\* no request was accepted it returns an empty list and failedRequests has
\* increased by exactly 1, and when a request was accepted failedRequests is
\* unchanged.
C16_FailureReturnsEmpty ==
    /\ Len(sentSeq) <= EsslMaxRetries * Len(DeclaredOrder)
    /\ wsdlFetches <= EsslMaxRetries
    /\ Len(srcDelays) <= EsslMaxRetries
    /\ srcPc # "done" => ENABLED NextSource
    /\ sourceResult.returned <=> srcPc = "done"
    /\ srcPc = "done"
       => /\ ~sourceResult.threw
          /\ sourceResult.ok <=> succeededAt # 0
          /\ IF sourceResult.ok
             THEN esslStats.failedRequests = 0
             ELSE sourceResult.list = "empty" /\ esslStats.failedRequests = 1
    /\ srcPc # "done" => esslStats.failedRequests = 0

C16_Witness ==
    /\ srcPc = "done"
    /\ ~sourceResult.ok
    /\ Len(roundErrors) = EsslMaxRetries
    /\ esslStats.failedRequests = 1

(***************************************************************************)
(* SpecApp: the life of the process (Application in app.js).  The remote   *)
(* systems go down and come back at any time; a remote system that is down *)
(* stands for every transient failure: unreachable, 5xx, 429, timeout.     *)
(***************************************************************************)
InitApp ==
    /\ cfg = DefaultConfig
    /\ ServiceConstructed
    /\ PeakIdle
    /\ MoreIdle
    /\ TwinIdle
    /\ SyncIdle
    /\ TokenIdle
    /\ BatchIdle
    /\ SinkIdle
    /\ SourceIdle
    /\ RevokeIdle
    /\ appPc = "constructed"
    /\ sourceUp \in BOOLEAN
    /\ sinkUp \in BOOLEAN
    /\ configValid \in [ { "essl", "zoho" } -> BOOLEAN ]
    /\ exitCode = -1
    /\ exitCause = "none"
    /\ appCycles = 0

\* process.exit(code)
ProcessExit(code, cause) ==
    /\ appPc' = "exited"
    /\ exitCode' = code
    /\ exitCause' = cause

\* Why a connection test failed.
FailureCause(valid) == IF valid THEN "transient" ELSE "configuration"

\* app.start() up to await this.esslService.testConnection()
AppStart ==
    /\ appPc = "constructed"
    /\ appPc' = "testingSource"
    /\ UNCHANGED <<sourceUp, sinkUp, configValid, exitCode, exitCause, appCycles>>
    /\ UNCHANGED outsideApp

\* esslService.testConnection() has settled: success only for a 200 answer.
SourceTestSettles ==
    /\ appPc = "testingSource"
    /\ IF sourceUp /\ configValid.essl
       THEN appPc' = "testingSink" /\ UNCHANGED <<exitCode, exitCause>>
       ELSE ProcessExit(1, FailureCause(configValid.essl))
    /\ UNCHANGED <<sourceUp, sinkUp, configValid, appCycles>>
    /\ UNCHANGED outsideApp

\* zohoService.testConnection() has settled; on success the health timer is
\* set and syncService.start() is awaited.
SinkTestSettles ==
    /\ appPc = "testingSink"
    /\ IF sinkUp /\ configValid.zoho
       THEN appPc' = "starting" /\ UNCHANGED <<exitCode, exitCause>>
       ELSE ProcessExit(1, FailureCause(configValid.zoho))
    /\ UNCHANGED <<sourceUp, sinkUp, configValid, appCycles>>
    /\ UNCHANGED outsideApp

\* syncService.start() has settled (the first cycle is over, whatever the
\* remote systems answered); the signal handlers are installed.
ServiceStarted ==
    /\ appPc = "starting"
    /\ appPc' = "running"
    /\ appCycles' = 1
    /\ UNCHANGED <<sourceUp, sinkUp, configValid, exitCode, exitCause>>
    /\ UNCHANGED outsideApp

\* A later cycle runs to its end: failures of the source and of the sink are
\* absorbed by getTransactions, sendAttendance and the catch of syncCycle.
CycleRuns ==
    /\ appPc = "running"
    /\ appCycles < MaxAppCycles
    /\ appCycles' = appCycles + 1
    /\ UNCHANGED <<appPc, sourceUp, sinkUp, configValid, exitCode, exitCause>>
    /\ UNCHANGED outsideApp

\* SIGINT / SIGTERM: the shutdown handler once it is installed, the default
\* disposition of the signal before.
AppSignal ==
    /\ appPc \in { "testingSource", "testingSink", "starting", "running" }
    /\ IF appPc = "running"
       THEN appPc' = "shuttingDown" /\ UNCHANGED <<exitCode, exitCause>>
       ELSE ProcessExit(130, "signal")
    /\ UNCHANGED <<sourceUp, sinkUp, configValid, appCycles>>
    /\ UNCHANGED outsideApp

\* shutdown: delay(2000) is over, process.exit(0)
AppShutdownExit ==
    /\ appPc = "shuttingDown"
    /\ ProcessExit(0, "signal")
    /\ UNCHANGED <<sourceUp, sinkUp, configValid, appCycles>>
    /\ UNCHANGED outsideApp

\* A remote system goes down or comes back.
RemoteChanges ==
    /\ appPc # "exited"
    /\ \E s, k \in BOOLEAN :
          /\ <<s, k>> # <<sourceUp, sinkUp>>
          /\ sourceUp' = s
          /\ sinkUp' = k
    /\ UNCHANGED <<appPc, configValid, exitCode, exitCause, appCycles>>
    /\ UNCHANGED outsideApp

NextApp ==
    \/ AppStart
    \/ SourceTestSettles
    \/ SinkTestSettles
    \/ ServiceStarted
    \/ CycleRuns
    \/ AppSignal
    \/ AppShutdownExit
    \/ RemoteChanges

SpecApp == InitApp /\ [][NextApp]_vars

\* C17: the process is never ended by a transient remote failure: when it has
\* exited, the cause is invalid static configuration or a stop signal.
C17_NoExitOnTransientFailure ==
    appPc = "exited" => exitCause \in { "configuration", "signal" }

(***************************************************************************)
(* Claims about getValidAccessToken checked on SpecToken.                  *)
(***************************************************************************)
\* The recorded expiry of the token that the call of c returns in this step.
ReturnedExpiry(c) ==
    IF callers[c].pc = "idle" THEN tokenExpiresAt ELSE callers[c].info.expiresAt

\* C18: every access token that getValidAccessToken returns and that has a
\* recorded expiry satisfies now < expiry - buffer at the moment it is
\* returned, be it the stored token or one just obtained by refresh.
C18_ReturnedTokenOutsideBuffer ==
    [][ \A c \in Callers :
           ( callers[c].pc # "done" /\ callers'[c].pc = "done" /\ ReturnedExpiry(c) # 0 )
           => authNow < ReturnedExpiry(c) - BufferMinutes ]_vars

\* C19: a getValidAccessToken call made while the stored token is not usable
\* and no refresh token is held fails at once, sends no request to the OAuth
\* endpoint and leaves accessToken, refreshToken and tokenExpiresAt unchanged.
C19_NoGrantFails ==
    [][ \A c \in Callers :
           ( /\ callers[c].pc = "idle"
             /\ callers'[c].pc # "idle"
             /\ ~isTokenValid
             /\ refreshToken = 0 )
           => ( /\ callers'[c].pc = "failed"
                /\ ~callers'[c].sent
                /\ tokenRequests' = tokenRequests
                /\ accessToken' = accessToken
                /\ refreshToken' = refreshToken
                /\ tokenExpiresAt' = tokenExpiresAt ) ]_vars

C19_Witness ==
    \E c \in Callers :
        /\ callers[c].pc = "failed"
        /\ ~callers[c].sent
        /\ refreshToken = 0
        /\ ~isTokenValid
        /\ tokenRequests = 0

(***************************************************************************)
(* SpecRevoke: SpecToken together with one call of revokeToken and one     *)
(* call of exchangeCodeForToken, interleaved with the getValidAccessToken  *)
(* calls at their awaits.                                                  *)
(***************************************************************************)
\* The refresh token of the grant that exchangeCodeForToken obtains.
NewGrant == 2

\* A step of a getValidAccessToken call, observed: did it return a token
\* after revokeToken had finished and before a new grant was supplied?
Watched(step) ==
    /\ step
    /\ handedAfterRevoke' =
           ( handedAfterRevoke
             \/ ( revoked /\ revokePc \in { "done", "threw" }
                 /\ \E c \in Callers :
                                callers'[c].pc = "done" /\ callers[c].pc # "done" ) )
    /\ UNCHANGED <<revokePc, revokeFailed, exchange, revoked>>
    /\ UNCHANGED outsideRevoke

\* revokeToken up to its POST; without an access token it returns at once.
RevokeCalled ==
    /\ revokePc = "idle"
    /\ revokePc' = IF accessToken = 0 THEN "done" ELSE "posting"
    /\ UNCHANGED <<revokeFailed, exchange, revoked, handedAfterRevoke>>
    /\ UNCHANGED tokenVars
    /\ UNCHANGED outsideRevoke

\* The revoke request has settled; the finally block clears the fields and
\* awaits saveTokensToEnv.  failed: an error other than a 400 response.
RevokeAnswered(failed) ==
    /\ revokePc = "posting"
    /\ accessToken' = 0
    /\ refreshToken' = 0
    /\ tokenExpiresAt' = 0
    /\ revokeFailed' = failed
    /\ revokePc' = "saving"
    /\ revoked' = TRUE
    /\ UNCHANGED <<exchange, handedAfterRevoke>>
    /\ UNCHANGED <<authNow, callers, tokenRequests, issued, envFile>>
    /\ UNCHANGED outsideRevoke

\* saveTokensToEnv of the finally block has settled: the empty values are
\* skipped (if (value)), so no line of the file changes.
RevokeSaved(ok) ==
    /\ revokePc = "saving"
    /\ revokePc' = IF ok /\ ~revokeFailed THEN "done" ELSE "threw"
    /\ UNCHANGED <<revokeFailed, exchange, revoked, handedAfterRevoke>>
    /\ UNCHANGED tokenVars
    /\ UNCHANGED outsideRevoke

\* exchangeCodeForToken up to its POST.
ExchangeCalled ==
    /\ exchange.pc = "idle"
    /\ exchange' = [ exchange EXCEPT !.pc = "posting" ]
    /\ UNCHANGED <<revokePc, revokeFailed, revoked, handedAfterRevoke>>
    /\ UNCHANGED tokenVars
    /\ UNCHANGED outsideRevoke

\* The token endpoint has answered the code exchange with a new grant.
ExchangeAnswered(expiresIn) ==
    /\ exchange.pc = "posting"
    /\ issued' = issued + 1
    /\ accessToken' = issued + 1
    /\ refreshToken' = NewGrant
    /\ tokenExpiresAt' = authNow + expiresIn
    /\ exchange' = [ pc |-> "saving",
                     info |-> [ accessToken |-> issued + 1,
                                expiresAt |-> authNow + expiresIn ] ]
    /\ revoked' = FALSE
    /\ UNCHANGED <<revokePc, revokeFailed, handedAfterRevoke>>
    /\ UNCHANGED <<authNow, callers, tokenRequests, envFile>>
    /\ UNCHANGED outsideRevoke

\* The code exchange has failed or answered without access_token.
ExchangeFailed ==
    /\ exchange.pc = "posting"
    /\ exchange' = [ exchange EXCEPT !.pc = "threw" ]
    /\ UNCHANGED <<revokePc, revokeFailed, revoked, handedAfterRevoke>>
    /\ UNCHANGED tokenVars
    /\ UNCHANGED outsideRevoke

\* saveTokensToEnv of exchangeCodeForToken has settled.
ExchangeSaved(ok) ==
    /\ exchange.pc = "saving"
    /\ exchange' = [ exchange EXCEPT !.pc = IF ok THEN "done" ELSE "threw" ]
    /\ envFile' = IF ok THEN exchange.info ELSE envFile
    /\ UNCHANGED <<revokePc, revokeFailed, revoked, handedAfterRevoke>>
    /\ UNCHANGED <<accessToken, refreshToken, tokenExpiresAt, authNow, callers,
                   tokenRequests, issued>>
    /\ UNCHANGED outsideRevoke

TokenReturned == Watched(\E c \in Callers : ReturnStored(c))
RefreshSent == Watched(\E c \in Callers : SendRefresh(c))
CallRefused == Watched(\E c \in Callers : FailNoGrant(c))
RefreshGranted ==
    Watched(\E c \in Callers, e \in ExpiresInChoices : RefreshAnswered(c, e))
RefreshRejected == Watched(\E c \in Callers : RefreshFailed(c))
TokenSaved == Watched(\E c \in Callers : SaveDone(c))
TokenNotSaved == Watched(\E c \in Callers : SaveFailed(c))
TimePasses == Watched(AuthTick)
RevokeAnswers == \E failed \in BOOLEAN : RevokeAnswered(failed)
RevokeSaves == \E ok \in BOOLEAN : RevokeSaved(ok)
ExchangeAnswers == \E e \in ExpiresInChoices : ExchangeAnswered(e)
ExchangeSaves == \E ok \in BOOLEAN : ExchangeSaved(ok)

NextRevoke ==
    \/ TokenReturned
    \/ RefreshSent
    \/ CallRefused
    \/ RefreshGranted
    \/ RefreshRejected
    \/ TokenSaved
    \/ TokenNotSaved
    \/ TimePasses
    \/ RevokeCalled
    \/ RevokeAnswers
    \/ RevokeSaves
    \/ ExchangeCalled
    \/ ExchangeAnswers
    \/ ExchangeFailed
    \/ ExchangeSaves

\* The service holds a grant: an access token and a refresh token.
InitRevoke == InitToken /\ accessToken # 0 /\ refreshToken # 0

SpecRevoke == InitRevoke /\ [][NextRevoke]_vars

\* C20: once revokeToken has cleared the tokens and finished, no
\* getValidAccessToken call returns an access token until
\* exchangeCodeForToken has obtained a new grant.
C20_NoTokenAfterRevoke == ~handedAfterRevoke

(***************************************************************************)
(* Persistence of the tokens (SpecToken): refreshAccessToken assigns the   *)
(* fields when the POST has answered and awaits saveTokensToEnv, whose     *)
(* write replaces the token lines of the file by those of its tokenInfo.   *)
(***************************************************************************)
\* No call is suspended at its POST or at its save, and no save has thrown.
TokenQuiescent ==
    \A c \in Callers :
        /\ callers[c].pc \in { "idle", "done", "failed" }
        /\ callers[c].pc = "failed" => callers[c].info.accessToken = 0

\* C21: whenever no refresh and no save is in flight (and every save made so
\* far succeeded), the access token and the expiry held by the .env file
\* equal the fields accessToken and tokenExpiresAt.
C21_PersistedEqualsMemory ==
    TokenQuiescent =>
        envFile = [ accessToken |-> accessToken, expiresAt |-> tokenExpiresAt ]

(***************************************************************************)
(* The cycle rules of syncCycle (Spec): what the end of a cycle does to    *)
(* the counters, the interval, the cursor and the timer.                   *)
(***************************************************************************)
\* The step is the end of a cycle in the catch branch (lines 75-86).
ErrorBranchTaken == cycleNo' = cycleNo + 1 /\ lastOutcome' = "error"

\* What handleSyncError does to the counters and to the interval.
ErrorRuleApplied ==
    /\ consecutiveErrors' = consecutiveErrors + 1
    /\ emptyPollsCount' = 0
    /\ ruleInterval' = MathMin(Int2Rat(cfg.maxInterval),
                               RatMul(Int2Rat(cfg.baseInterval),
                                      MathPow(cfg.backoffFactor, consecutiveErrors + 1)))

\* C22 (as claimed): when a cycle ends in the error branch, consecutiveErrors
\* increases by exactly 1, the error backoff is applied, lastSyncTime has the
\* value it had when the cycle started, and the next cycle is scheduled.
C22_ErrorBranchAsClaimed ==
    [][ ErrorBranchTaken =>
          /\ ErrorRuleApplied
          /\ \A c \in cycles \ cycles' : lastSyncTime' = c.from
          /\ timers' = timers + 1 ]_vars

\* C22 (amended): when a cycle ends in the error branch, consecutiveErrors
\* increases by exactly 1, the error backoff is applied, the branch leaves
\* lastSyncTime as it finds it, and the next cycle is scheduled exactly when
\* the service is still running.
C22_ErrorBranch ==
    [][ ErrorBranchTaken =>
          /\ ErrorRuleApplied
          /\ lastSyncTime' = lastSyncTime
          /\ timers' = IF isRunning THEN timers + 1 ELSE timers ]_vars

\* C22 witness: the second cycle of a running service ended in the error
\* branch like the first, while the clock moved on: two errors counted,
\* 20000 * 1.5^2 = 45000 applied, the cursor where it started, a timer set.
C22_Witness ==
    /\ startCalls = 1
    /\ isRunning
    /\ lastOutcome = "error"
    /\ consecutiveErrors = 2
    /\ ruleInterval = <<45000, 1>>
    /\ lastSyncTime = InitialCursor
    /\ now >= 2
    /\ cycles = {}
    /\ timers = 1

\* The step is the end of a cycle in the try block (lines 57-73, 81-86).
CycleCompleted == cycleNo' = cycleNo + 1 /\ lastOutcome' # "error"

\* The step is the entry of a cycle up to its fetch call (lines 41-53).
CycleBegun == cyclesStarted' = cyclesStarted + 1

\* C23: a cycle that ends outside the error branch leaves the cursor at the
\* upper bound that it passed to its fetch; a cycle that begins passes the
\* cursor as the lower bound of its window and the clock as the upper bound;
\* and nothing else writes the cursor.  Hence every window starts where the
\* window of the last completed cycle ended: the windows leave no gap.
C23_WindowsContiguous ==
    [][ /\ CycleCompleted => \A c \in cycles \ cycles' : lastSyncTime' = c.to
        /\ CycleBegun =>
               \A c \in cycles' \ cycles :
                   c.from = lastSyncTime /\ c.to = now /\ lastSyncTime' = lastSyncTime
        /\ lastSyncTime' # lastSyncTime => CycleCompleted ]_vars

\* C23 witness: the first cycle fetched records up to second 1 and completed,
\* the clock moved on, and the second cycle is fetching the window [1, 2].
C23_Witness ==
    /\ startCalls = 1
    /\ lastOutcome = "records"
    /\ cycleNo = 1
    /\ lastSyncTime = 1
    /\ cycles = { [ id |-> 2, from |-> 1, to |-> 2, phase |-> "fetching" ] }

(***************************************************************************)
(* The empty-poll rule (SpecInterval).                                     *)
(***************************************************************************)
\* The step is the end of a cycle whose fetch returned no record.
EmptyPollTaken == cycleNo' = cycleNo + 1 /\ lastOutcome' = "empty"

\* C25: on an empty poll emptyPollsCount increases by exactly 1 and
\* consecutiveErrors becomes 0; the interval is left as it was while the new
\* count is below emptyPollsToBackoff, and becomes
\* min(maxInterval, interval * backoffFactor) on every empty poll from the
\* one that brings the count to emptyPollsToBackoff.
C25_EmptyPollRule ==
    [][ EmptyPollTaken =>
          /\ emptyPollsCount' = emptyPollsCount + 1
          /\ consecutiveErrors' = 0
          /\ ruleInterval' =
                 IF emptyPollsCount + 1 < cfg.emptyPollsToBackoff
                 THEN currentInterval
                 ELSE MathMin(Int2Rat(cfg.maxInterval),
                              RatMul(currentInterval, cfg.backoffFactor)) ]_vars

\* C25 witness: six empty polls outside the peak hours under the default
\* configuration; the fifth raised 20000 to 30000, the sixth 30000 to 45000.
C25_Witness ==
    /\ cfg = DefaultConfig
    /\ allEmpty
    /\ allOffPeak
    /\ lastOutcome = "empty"
    /\ emptyPollsCount = 6
    /\ consecutiveErrors = 0
    /\ ruleInterval = <<45000, 1>>

(***************************************************************************)
(* SpecPeak: the service next to a twin that takes the same cycle outcomes *)
(* with a clock that is never in the peak hours, so that the twin's        *)
(* interval is what the outcome rules alone produce.                       *)
(***************************************************************************)
\* the hours around both peak windows, midnight, noon and the last hour
PeakClockHours == { 0, 7, 8, 9, 10, 12, 16, 17, 18, 19, 23 }

OffPeakHour == 12

PeakConfigs == TwinConfigs \cup { [ DefaultConfig EXCEPT !.minInterval = 15000 ] }

InitPeak ==
    /\ cfg \in PeakConfigs
    /\ ServiceConstructed
    /\ ClientsIdle
    /\ twin = this
    /\ twinJoint = [ same |-> FALSE, outcome |-> "none", differed |-> FALSE ]
    /\ SyncIdle
    /\ TokenIdle
    /\ BatchIdle

\* The tail of a cycle of the running service at clock hour h, and the tail
\* of the twin's cycle with the same outcome.
PeakStep(outcome, h) ==
    /\ cycleNo < MaxPeakCycles
    /\ IntervalUpdate(outcome, TRUE, h)
    /\ clockHour' = h
    /\ twin' = CycleTail(outcome, twin, TRUE, OffPeakHour)
    /\ twinJoint' = [ same |-> TRUE, outcome |-> outcome,
                      differed |-> currentInterval # twin.currentInterval ]
    /\ UNCHANGED <<syncVars, tokenVars, batchVars, sinkVars, sourceVars, appVars,
                   revokeVars, moreVars>>

PeakCycle == \E o \in Outcomes, h \in PeakClockHours : PeakStep(o, h)

NextPeak == PeakCycle

SpecPeak == InitPeak /\ [][NextPeak]_vars

\* The interval with which the next cycle is scheduled, given the interval r
\* of the outcome rules: max(minInterval, r/2) in [8,10) and [17,19), else r.
ScheduledWith(r) ==
    IF clockHour \in { 8, 9, 17, 18 }
    THEN MathMax(Int2Rat(cfg.minInterval), RatHalf(r))
    ELSE r

\* C26: the next cycle is scheduled with max(minInterval, r/2) when the
\* clock hour is in [8,10) or [17,19) and with r otherwise, r being the
\* interval given by the outcome rules; and a halving does not lower the
\* interval that the outcome rules produce in later cycles: it is the
\* interval of the twin, which never halves.
C26_PeakAdjustmentTransient ==
    cycleNo >= 1 =>
        /\ currentInterval = ScheduledWith(ruleInterval)
        /\ ruleInterval = twin.currentInterval

(***************************************************************************)
(* SpecCycle: the cycles of one started service with their processing:     *)
(* syncCycle (Spec) calling processTransactions (SpecBatch) on whatever    *)
(* list of records the fetch returned.                                     *)
(***************************************************************************)
\* 11 records (batches of 5): an unmapped record in the first batch, a
\* record with an unparsable timestamp in the second
CycleMediumLists ==
    { l \in MediumLists : l[1] = UnmappedRecord \/ l[6] = BadTimeRecord }

\* what a fetch may return: a backlog of 11 records at the first fetch after
\* the start, one or two records of any kind at any fetch
CycleLists(first) ==
    { l \in ShortLists : Len(l) <= 2 } \cup (IF first THEN CycleMediumLists ELSE {})

InitCycle == Init

\* getTransactions resolves with a non-empty list: syncCycle calls
\* processTransactions, whose locals start afresh (lines 60-62, 90-93).
CycleFetchRecords(c, list) ==
    /\ c \in cycles /\ c.phase = "fetching"
    /\ cycles' = (cycles \ { c }) \cup { [ c EXCEPT !.phase = "processing" ] }
    /\ transactions' = list
    /\ batchPc' = "idle"
    /\ batchFrom' = 1
    /\ inFlight' = {}
    /\ settled' = <<>>
    /\ results' = [ synced |-> 0, failed |-> 0 ]
    /\ sent' = {}
    /\ skipsLogged' = 0
    /\ UNCHANGED <<intervalVars, historyVars, twinVars, tokenVars, clientVars,
                   isRunning, lastSyncTime, now, punches, timers, cyclesStarted,
                   startCalls, fetched, processPhase, syncStats>>

Processing == \E c \in cycles : c.phase = "processing"

CycleStarts == startCalls = 0 /\ Start
CycleStops == Stop
CycleTimerFires == TimerFire
CycleFetchesNothing == FetchEmptySettles
CycleFetchRejects == FetchRejects
CycleFetchesRecords ==
    \E c \in cycles, l \in CycleLists(cycleNo = 0) : CycleFetchRecords(c, l)
CycleBatchStarts == Processing /\ BatchStarts
CycleDispatchSettles == Processing /\ DispatchSettled
CycleBatchCompletes == Processing /\ BatchCompletes
CycleProcessSettles == batchPc = "done" /\ ProcessSettles

NextCycle ==
    \/ CycleStarts
    \/ CycleStops
    \/ CycleTimerFires
    \/ CycleFetchesNothing
    \/ CycleFetchRejects
    \/ CycleFetchesRecords
    \/ CycleBatchStarts
    \/ CycleDispatchSettles
    \/ CycleBatchCompletes
    \/ CycleProcessSettles

SpecCycle == InitCycle /\ [][NextCycle]_vars

\* The step ends a cycle whose fetch returned at least one record.
RecordsCycleEnds == \E c \in cycles \ cycles' : c.phase = "processing"

\* C24: a cycle in which the source returned at least one record ends,
\* whatever the outcomes of its events, with emptyPollsCount = 0 and
\* consecutiveErrors = 0 and with baseInterval as the interval before the
\* peak-hour adjustment (it does not end in the error branch).
C24_ActivityResets ==
    [][ RecordsCycleEnds =>
          /\ lastOutcome' = "records"
          /\ emptyPollsCount' = 0
          /\ consecutiveErrors' = 0
          /\ ruleInterval' = Int2Rat(cfg.baseInterval) ]_vars

\* C24 witness: the second cycle fetched two records whose dispatches both
\* failed; it ended at a peak hour with the counters at 0, the interval
\* reset to 20000 and then halved for scheduling.
C24_Witness ==
    /\ cycles = {}
    /\ cycleNo = 2
    /\ lastOutcome = "records"
    /\ Len(transactions) = 2
    /\ sent = { 1, 2 }
    /\ results = [ synced |-> 0, failed |-> 2 ]
    /\ emptyPollsCount = 0
    /\ consecutiveErrors = 0
    /\ ruleInterval = <<20000, 1>>
    /\ currentInterval = <<10000, 1>>

(***************************************************************************)
(* Batches of processTransactions (SpecBatch).                             *)
(***************************************************************************)
\* the batch size as the claim gives it
ClaimedBatchSize(n) == IF n <= 10 THEN 1 ELSE IF n <= 50 THEN 5 ELSE ConfiguredBatchSize

\* Every dispatch in flight belongs to the current batch, no record of a
\* later batch has been sent, and while no batch is open nothing is in
\* flight and everything sent belongs to the batches before.
BatchesSequential ==
    /\ inFlight \subseteq CurrentBatch
    /\ \A i \in sent : i < batchFrom + ClaimedBatchSize(Len(transactions))
    /\ batchPc \in { "idle", "delay" } => inFlight = {} /\ \A i \in sent : i < batchFrom
    /\ Cardinality(inFlight) <= ClaimedBatchSize(Len(transactions))

\* The delay is being waited only when a batch is still to come.
DelayOnlyBetween == batchPc = "delay" => batchFrom <= Len(transactions)

\* A batch opens at the entry of processTransactions or after the delay, and
\* a batch that closes is followed by the delay exactly when records remain.
DelayBetweenBatches ==
    /\ (batchPc # "batch" /\ batchPc' = "batch") =>
           (batchPc = "delay" \/ (batchPc = "idle" /\ batchFrom = 1))
    /\ (batchPc = "batch" /\ batchPc' # "batch") =>
           /\ inFlight = {}
           /\ batchPc' = IF batchFrom' > batchFrom THEN "delay" ELSE "done"
           /\ batchPc' = "done" =>
                  batchFrom + ClaimedBatchSize(Len(transactions)) > Len(transactions)

\* C27: batches are dispatched one after the other: no event of a batch is
\* sent before every event of the batch before has settled; the dispatches
\* in flight never exceed the batch size (1 for <= 10 records, 5 for <= 50,
\* the configured size otherwise); the inter-batch delay is applied between
\* consecutive batches and not after the last one.
C27_SequentialBatches ==
    /\ [](BatchesSequential /\ DelayOnlyBetween)
    /\ [][DelayBetweenBatches]_vars

\* C27 witness: 11 records; the first batch of 5 has settled, the delay has
\* been waited, and the 5 dispatches of the second batch are in flight.
C27_Witness ==
    /\ Len(transactions) = 11
    /\ batchPc = "batch"
    /\ batchFrom = 6
    /\ sent = 1 .. 10
    /\ inFlight = 6 .. 10
    /\ results.synced + results.failed = 5

\* the records with a mapped employee code and a timestamp that parses
Valid == { i \in 1 .. Len(transactions) : transactions[i].mapped /\ transactions[i].timeOk }

\* C28: when processTransactions has returned, every valid record has been
\* dispatched and every dispatch has settled exactly once, every other
\* record has been dropped with a logged warning and not dispatched, and
\* synced + failed equals the number of fetched records.
C28_EveryRecordHandledOnce ==
    batchPc = "done" =>
        /\ sent = Valid
        /\ syncStats.successful + syncStats.failed = Cardinality(Valid)
        /\ skipsLogged = Len(transactions) - Cardinality(Valid)
        /\ results.synced = syncStats.successful
        /\ results.synced + results.failed = Len(transactions)

\* C28 witness: three records, one valid and synced, one without mapping,
\* one with an unparsable timestamp.
C28_Witness ==
    /\ batchPc = "done"
    /\ transactions = <<OkRecord, UnmappedRecord, BadTimeRecord>>
    /\ sent = { 1 }
    /\ skipsLogged = 2
    /\ results = [ synced |-> 1, failed |-> 2 ]

(***************************************************************************)
(* Isolation of a failing record (SpecCycle).                              *)
(***************************************************************************)
\* While a batch is open every valid record of it has been dispatched,
\* whatever the other records of the batch are; while the cycle is
\* processing, its next step can be taken: the next batch can open, a
\* dispatch in flight can settle (even by throwing), the batch can close, or
\* the cycle can end.
OthersDispatched ==
    Processing =>
        /\ batchPc = "batch" => CurrentBatch \cap Valid \subseteq sent
        /\ batchPc = "done" => sent = Valid
        /\ \/ ENABLED BatchBegin
           \/ \E i \in inFlight : ENABLED DispatchSettles(i, "throw")
           \/ ENABLED BatchEnd
           \/ batchPc = "done" /\ \E c \in cycles : ENABLED ProcessSettle(c, OffPeakHour)

\* C29: a record that fails validation or whose dispatch throws affects only
\* itself: every other record of its batch and of the later batches is still
\* transformed and dispatched, and the cycle ends in the try block, not in
\* the error branch.
C29_FailureIsolated ==
    /\ []OthersDispatched
    /\ [][ RecordsCycleEnds => (lastOutcome' = "records" /\ sent = Valid) ]_vars

\* C29 witness: a backlog of 11 records whose first has no mapping; one
\* dispatch failed or threw; the ten valid records were all dispatched and
\* the cycle ended outside the error branch.
C29_Witness ==
    /\ cycles = {}
    /\ lastOutcome = "records"
    /\ consecutiveErrors = 0
    /\ Len(transactions) = 11
    /\ transactions[1] = UnmappedRecord
    /\ sent = 2 .. 11
    /\ skipsLogged = 1
    /\ results = [ synced |-> 9, failed |-> 2 ]

(***************************************************************************)
(* Termination and retries of sendAttendance (SpecSink).                   *)
(***************************************************************************)
\* min(rateLimitDelay * 2^retryCount, 30000)
ClaimedBackoff(rc) ==
    IF ZohoRateLimitDelay * Pow2(rc) <= 30000 THEN ZohoRateLimitDelay * Pow2(rc)
    ELSE 30000

\* the k-th post was answered with a 5xx status or got no response
Transient(k) == sinkScript[k].status = 0 \/ sinkScript[k].status >= 500

\* C30: whatever the sink answers, the call makes at most maxRetries + 1
\* requests and never stops short of returning; when it has returned, a 403
\* or 404 reply was the last request of the call (first reply: exactly one
\* request), and every 5xx reply or network error among the first
\* maxRetries requests was followed by another request after a delay of
\* min(rateLimitDelay * 2^retryCount, 30000).
C30_SinkCallTerminates ==
    /\ sinkPosts <= ZohoMaxRetries + 1
    /\ sinkPc # "done" => ENABLED NextSink
    /\ \A rc \in 0 .. MaxBackoffExponent : Zoho_calculateBackoff(rc) = ClaimedBackoff(rc)
    /\ sinkPc = "done" =>
           /\ sinkResult.returned
           /\ \A k \in 1 .. sinkPosts :
                  /\ sinkScript[k].status \in { 403, 404 } => k = sinkPosts
                  /\ (Transient(k) /\ k <= ZohoMaxRetries) =>
                         /\ sinkPosts > k
                         /\ sinkDelays[k] = ClaimedBackoff(k - 1)
           /\ (sinkPosts >= 1 /\ sinkScript[1].status \in { 403, 404 }) => sinkPosts = 1

\* C30 witness: a 500, a request without response, a 500 and a 500 again:
\* four requests with delays of 100, 200 and 400 ms, then a failure returned.
C30_Witness ==
    /\ sinkPc = "done"
    /\ sinkScript[1].status = 500
    /\ sinkScript[2].status = 0
    /\ sinkScript[3].status = 500
    /\ sinkScript[4].status = 500
    /\ sinkPosts = 4
    /\ sinkDelays = <<100, 200, 400>>
    /\ sinkResult.returned
    /\ ~sinkResult.success

(***************************************************************************)
(* The two counters of the interval state (SpecInterval).                  *)
(***************************************************************************)
\* C38: in every reachable state emptyPollsCount and consecutiveErrors are
\* both >= 0 and at most one of them is positive.
C38_CountersExclusive ==
    /\ emptyPollsCount >= 0
    /\ consecutiveErrors >= 0
    /\ emptyPollsCount = 0 \/ consecutiveErrors = 0

\* C38 witness: the third cycle ends in an error right after a cycle that
\* did not: the error counter is 1 and the empty-poll counter is 0.
C38_Witness ==
    /\ cycleNo = 3
    /\ ~allEmpty
    /\ lastOutcome = "error"
    /\ consecutiveErrors = 1
    /\ emptyPollsCount = 0

(***************************************************************************)
(* revokeToken and the persisted store (SpecRevoke): the finally block     *)
(* clears the fields and calls saveTokensToEnv with empty values, which    *)
(* saveTokensToEnv skips.                                                  *)
(***************************************************************************)
\* C37: after revokeToken has finished (returned or thrown), with no other
\* token operation started, the three in-memory fields are null and the
\* persisted store no longer holds the previous access token and expiry.
C37_RevokeClearsStore ==
    ( /\ revoked
      /\ revokePc \in { "done", "threw" }
      /\ exchange.pc = "idle"
      /\ \A c \in Callers : callers[c].pc = "idle" )
    => /\ accessToken = 0
       /\ refreshToken = 0
       /\ tokenExpiresAt = 0
       /\ envFile.accessToken = 0
       /\ envFile.expiresAt = 0

(***************************************************************************)
(* The fields written by a failing refreshAccessToken (SpecToken).         *)
(***************************************************************************)
\* C39: a refreshAccessToken call that fails leaves the in-memory fields as
\* they were before the call; in particular, when the call fails at
\* persisting, accessToken is not the token this call has just received
\* (which no earlier state held), and refreshToken is unchanged.
C39_FailedRefreshLeavesFields ==
    [][ \A c \in Callers :
            ( callers[c].pc = "saving" /\ callers'[c].pc = "failed" )
            => /\ accessToken' # callers[c].info.accessToken
               /\ refreshToken' = refreshToken ]_vars

(***************************************************************************)
(* SpecDecode: the branch of ESSLService.getTransactions taken for a       *)
(* response with status 200 and truthy data (274-297; 67-73 in the earlier *)
(* version), as a function of response.data.                               *)
(***************************************************************************)
RecordObject(n) == [ type |-> "record", id |-> n, items |-> <<>> ]

RecordIds == 1 .. 2

\* Arrays of at most MaxPayloadLen record objects
RecordArrays ==
    UNION { [ 1 .. n -> { RecordObject(i) : i \in RecordIds } ] : n \in 0 .. MaxPayloadLen }

ArrayOf(items) == [ type |-> "array", id |-> 0, items |-> items ]

\* What soapData.GetDeviceLogDataResult may hold: nothing (key missing, null
\* or ''), an array of records, one record, a non-empty string, an object
\* that holds the list one level deeper.
ResultValues ==
    { Undefined }
    \cup { ArrayOf(a) : a \in RecordArrays }
    \cup { RecordObject(i) : i \in RecordIds }
    \cup { [ type |-> "string", id |-> 0, items |-> <<>> ],
           [ type |-> "nested", id |-> 0, items |-> <<RecordObject(1)>> ] }

\* Truthy response.data values: an array, an object with or without the
\* result key, a non-empty string (an XML body), a number.
ResponseDatas ==
    { [ type |-> "array", id |-> 0, items |-> a, result |-> Undefined ] :
        a \in RecordArrays }
    \cup { [ type |-> "object", id |-> 0, items |-> <<>>, result |-> r ] :
             r \in ResultValues }
    \cup { [ type |-> "string", id |-> 0, items |-> <<>>, result |-> Undefined ],
           [ type |-> "number", id |-> 1, items |-> <<>>, result |-> Undefined ] }

\* if (x): undefined, null and '' are falsy
Truthy(x) == x.type # "undefined"

\* let transactions = [] ... (279-289); Array.isArray(response.data) ?
\* response.data : [] in the earlier version (line 68).
ParseTransactions(v, data) ==
    IF data.type = "array" THEN data.items
    ELSE IF v = "current" /\ data.type = "object"
    THEN IF Truthy(data.result)
         THEN IF data.result.type = "array"
              THEN data.result.items
              ELSE <<data.result>>
         ELSE <<>>
    ELSE <<>>

\* The levels of the logger calls made by the branch (291-292; none in the
\* earlier version).
BranchLogs(v) == IF v = "current" THEN <<"info", "info">> ELSE <<>>

InitDecode ==
    /\ cfg = DefaultConfig
    /\ ServiceConstructed
    /\ SinkIdle /\ SourceIdle /\ AppIdle /\ RevokeIdle /\ PeakIdle
    /\ TwinIdle
    /\ SyncIdle
    /\ TokenIdle
    /\ BatchIdle
    /\ HealthIdle
    /\ CronIdle
    /\ StampIdle
    /\ EmployeesIdle
    /\ decodeVersion \in { "current", "earlier" }
    /\ responseData \in ResponseDatas
    /\ decodeResult = [ returned |-> FALSE ]

\* response.status === 200 && response.data: the list is built, logged and
\* returned.
DecodeResponse ==
    /\ ~decodeResult.returned
    /\ decodeResult' =
           [ returned |-> TRUE, threw |-> FALSE,
             list |-> ParseTransactions(decodeVersion, responseData),
             logs |-> BranchLogs(decodeVersion) ]
    /\ UNCHANGED <<decodeVersion, responseData>>
    /\ UNCHANGED <<healthVars, cronVars, stampVars, employeesVars>>
    /\ UNCHANGED outsideMore

NextDecode == DecodeResponse

SpecDecode == InitDecode /\ [][NextDecode]_vars

\* The list the branch is said to return: the payload itself, the content of
\* the result wrapper as a list, or nothing.
ClaimedList(data) ==
    IF data.type = "array" THEN data.items
    ELSE IF data.type = "object" /\ Truthy(data.result)
    THEN IF data.result.type = "array" THEN data.result.items
         ELSE <<data.result>>
    ELSE <<>>

WrapperShape(data) == data.type = "object" /\ Truthy(data.result)

\* C32: for a 200 response getTransactions returns, without throwing, the
\* payload itself when it is an array, the unwrapped content of the result
\* wrapper when it is one, and for any other shape an empty list together
\* with a logged warning.
C32_ResponseNormalised ==
    decodeResult.returned =>
        /\ ~decodeResult.threw
        /\ decodeResult.list = ClaimedList(responseData)
        /\ ( responseData.type # "array" /\ ~WrapperShape(responseData) )
           => \E i \in 1 .. Len(decodeResult.logs) : decodeResult.logs[i] = "warn"

(***************************************************************************)
(* SpecHealth: HealthMonitor.  recordSyncStart, recordSyncEnd and          *)
(* getHealthStatus are called in any order; healthLog records whether the  *)
(* calls made so far form complete cycles (a recordSyncStart followed by   *)
(* one recordSyncEnd) and the durations that were recorded.                *)
(***************************************************************************)
\* syncDuration values (Date.now() - this.currentSyncStart), milliseconds
Durations == { 10, 25 }

\* the transactions argument of recordSyncEnd; the first is the default
SyncResults ==
    { [ synced |-> 0, failed |-> 0 ], [ synced |-> 2, failed |-> 0 ],
      [ synced |-> 1, failed |-> 1 ] }

\* (averageSyncTime * (totalSyncCycles - 1) + syncDuration) / totalSyncCycles
\* in plain weights (used to test the checks)
MovingAverageUnweighted(avg, n, started, d) ==
    IF ~started \/ avg = NaN \/ n = 0 THEN NaN
    ELSE Rat(avg[1] + d * avg[2], avg[2] * 2)

\* (averageSyncTime * (totalSyncCycles - 1) + syncDuration) / totalSyncCycles
\* (lines 88-90); syncDuration is NaN while currentSyncStart is undefined.
MovingAverage(avg, n, started, d) ==
    IF ~started \/ avg = NaN \/ n = 0 THEN NaN
    ELSE Rat(avg[1] * (n - 1) + d * avg[2], avg[2] * n)

\* recordSyncStart (lines 79-82)
recordSyncStart(m) == [ m EXCEPT !.totalSyncCycles = @ + 1 ]

\* recordSyncEnd (lines 84-107) with the moving average in plain weights
\* (used to test the checks)
recordSyncEndUnweighted(m, started, success, tr, d) ==
    [ m EXCEPT
        !.averageSyncTime =
            MovingAverageUnweighted(m.averageSyncTime, m.totalSyncCycles, started, d),
        !.successfulSyncs = IF success THEN @ + 1 ELSE @,
        !.failedSyncs = IF success THEN @ ELSE @ + 1,
        !.totalTransactions = @ + tr.synced + tr.failed,
        !.successfulTransactions = @ + tr.synced,
        !.failedTransactions = @ + tr.failed ]

\* recordSyncEnd (lines 84-107)
recordSyncEnd(m, started, success, tr, d) ==
    [ m EXCEPT
        !.averageSyncTime =
            MovingAverage(m.averageSyncTime, m.totalSyncCycles, started, d),
        !.successfulSyncs = IF success THEN @ + 1 ELSE @,
        !.failedSyncs = IF success THEN @ ELSE @ + 1,
        !.totalTransactions = @ + tr.synced + tr.failed,
        !.successfulTransactions = @ + tr.synced,
        !.failedTransactions = @ + tr.failed ]

\* isHealthy (lines 153-161); memoryBelow: memoryPercentage is below
\* config.performance.memoryThreshold * 100.
isHealthy(m, memoryBelow) ==
    memoryBelow /\ 2 * m.failedSyncs < m.totalSyncCycles

\* getHealthStatus().status (line 128)
getHealthStatus(m, memoryBelow) ==
    IF isHealthy(m, memoryBelow) THEN "healthy" ELSE "degraded"

InitHealth ==
    /\ cfg = DefaultConfig
    /\ ServiceConstructed
    /\ SinkIdle /\ SourceIdle /\ AppIdle /\ RevokeIdle /\ PeakIdle
    /\ TwinIdle
    /\ SyncIdle
    /\ TokenIdle
    /\ BatchIdle
    /\ DecodeIdle
    /\ HealthIdle
    /\ CronIdle
    /\ StampIdle
    /\ EmployeesIdle

RecordSyncStart ==
    /\ metrics.totalSyncCycles < MaxHealthCycles
    /\ metrics' = recordSyncStart(metrics)
    /\ currentSyncStart' = "set"
    /\ healthLog' = [ healthLog EXCEPT !.complete = @ /\ ~healthLog.open,
                                       !.open = TRUE ]
    /\ report' = NoReport
    /\ UNCHANGED <<decodeVars, cronVars, stampVars, employeesVars>>
    /\ UNCHANGED outsideMore

RecordSyncEnd(success, tr, d) ==
    /\ healthLog.ends < MaxHealthCycles
    /\ metrics' = recordSyncEnd(metrics, currentSyncStart = "set", success, tr, d)
    /\ healthLog' = [ complete |-> healthLog.complete /\ healthLog.open,
                      open |-> FALSE,
                      ends |-> healthLog.ends + 1,
                      sum |-> healthLog.sum + d ]
    /\ report' = NoReport
    /\ UNCHANGED currentSyncStart
    /\ UNCHANGED <<decodeVars, cronVars, stampVars, employeesVars>>
    /\ UNCHANGED outsideMore

SyncEndRecorded ==
    \E success \in BOOLEAN, tr \in SyncResults, d \in Durations :
        /\ ~success => tr = [ synced |-> 0, failed |-> 0 ]
        /\ RecordSyncEnd(success, tr, d)

GetHealthStatus(memoryBelow) ==
    /\ report = NoReport
    /\ report' = [ status |-> getHealthStatus(metrics, memoryBelow),
                   memoryBelow |-> memoryBelow ]
    /\ UNCHANGED <<metrics, currentSyncStart, healthLog>>
    /\ UNCHANGED <<decodeVars, cronVars, stampVars, employeesVars>>
    /\ UNCHANGED outsideMore

HealthStatusRead == \E memoryBelow \in BOOLEAN : GetHealthStatus(memoryBelow)

NextHealth ==
    \/ RecordSyncStart
    \/ SyncEndRecorded
    \/ HealthStatusRead

SpecHealth == InitHealth /\ [][NextHealth]_vars

\* The calls made so far are complete cycles.
CompleteCycles == healthLog.complete /\ ~healthLog.open

CountersAddUp ==
    CompleteCycles =>
        /\ metrics.successfulSyncs + metrics.failedSyncs = metrics.totalSyncCycles
        /\ metrics.successfulTransactions + metrics.failedTransactions
               = metrics.totalTransactions
        /\ healthLog.ends > 0 =>
               metrics.averageSyncTime = Rat(healthLog.sum, healthLog.ends)

\* C33: after every sequence of complete cycles successfulSyncs + failedSyncs
\* = totalSyncCycles, successfulTransactions + failedTransactions =
\* totalTransactions and averageSyncTime is the mean of the recorded
\* durations; no HealthMonitor call changes the cursor, the interval or the
\* counters of the orchestrator.
C33_HealthCounters ==
    /\ []CountersAddUp
    /\ [][UNCHANGED <<intervalVars, syncVars, batchVars>>]_vars

\* C33 witness: three complete cycles, one of them failed, with different
\* durations and with transactions of both kinds.
C33_Witness ==
    /\ CompleteCycles
    /\ metrics.totalSyncCycles = 3
    /\ metrics.failedSyncs = 1
    /\ metrics.failedTransactions = 1
    /\ metrics.successfulTransactions = 3
    /\ metrics.averageSyncTime = <<15, 1>>

\* C40: with memory usage below the threshold the reported status is healthy
\* whenever no cycle has failed, the state before the first cycle included,
\* and degraded only when at least half of the started cycles have failed.
C40_HealthyUnlessHalfFailed ==
    ( report.status # "none" /\ report.memoryBelow ) =>
        /\ metrics.failedSyncs = 0 => report.status = "healthy"
        /\ report.status = "degraded" =>
               2 * metrics.failedSyncs >= metrics.totalSyncCycles

(***************************************************************************)
(* SpecCron: the cron job of part_004 (cron.schedule(schedule, async ...)) *)
(* and syncRecentLogs of part_005.  Time is counted in minutes; a run is   *)
(* suspended at readDeviceLogs (pc "reading") and in pushLogsToZoho (pc    *)
(* "pushing").                                                             *)
(***************************************************************************)
\* process.env.REALTIME_CRON || "*/1 * * * *": a tick every minute
CronPeriod == 1

\* parseInt(process.env.SYNC_LOOKBACK_MINUTES || "5", 10)
LookbackMinutes == 5

\* WHERE L.LogDate > @since (rows of the table when the query runs)
readDeviceLogs(since) == { t \in deviceLogs : t > since }

\* A device writes a row stamped with the current minute.
DeviceLogged ==
    /\ cronNow \notin deviceLogs
    /\ deviceLogs' = deviceLogs \cup { cronNow }
    /\ UNCHANGED <<cronNow, cronRuns>>
    /\ UNCHANGED <<decodeVars, healthVars, stampVars, employeesVars>>
    /\ UNCHANGED outsideMore

\* The clock reaches the next tick of the schedule: the callback is invoked
\* and syncRecentLogs runs up to its await of readDeviceLogs.  Nothing in
\* the callback looks at the runs already under way.
CronTick ==
    /\ Len(cronRuns) < MaxCronTicks
    /\ cronNow' = cronNow + CronPeriod
    /\ cronRuns' = Append(cronRuns,
           [ pc |-> "reading", since |-> cronNow + CronPeriod - LookbackMinutes,
             data |-> {} ])
    /\ UNCHANGED deviceLogs
    /\ UNCHANGED <<decodeVars, healthVars, stampVars, employeesVars>>
    /\ UNCHANGED outsideMore

\* readDeviceLogs has answered run r; pushLogsToZoho starts.
ReadSettled(r, ok) ==
    /\ cronRuns[r].pc = "reading"
    /\ cronRuns' = [ cronRuns EXCEPT ![r] =
           IF ok
           THEN [ @ EXCEPT !.pc = "pushing", !.data = readDeviceLogs(cronRuns[r].since) ]
           ELSE [ @ EXCEPT !.pc = "done" ] ]
    /\ UNCHANGED <<cronNow, deviceLogs>>
    /\ UNCHANGED <<decodeVars, healthVars, stampVars, employeesVars>>
    /\ UNCHANGED outsideMore

\* pushLogsToZoho of run r has gone through its logs; the run returns.
PushSettled(r) ==
    /\ cronRuns[r].pc = "pushing"
    /\ cronRuns' = [ cronRuns EXCEPT ![r] = [ @ EXCEPT !.pc = "done" ] ]
    /\ UNCHANGED <<cronNow, deviceLogs>>
    /\ UNCHANGED <<decodeVars, healthVars, stampVars, employeesVars>>
    /\ UNCHANGED outsideMore

ReadSettles == \E r \in DOMAIN cronRuns, ok \in BOOLEAN : ReadSettled(r, ok)
PushSettles == \E r \in DOMAIN cronRuns : PushSettled(r)

InitCron ==
    /\ cfg = DefaultConfig
    /\ ServiceConstructed
    /\ SinkIdle /\ SourceIdle /\ AppIdle /\ RevokeIdle /\ PeakIdle
    /\ TwinIdle
    /\ SyncIdle
    /\ TokenIdle
    /\ BatchIdle
    /\ MoreIdle

NextCron ==
    \/ DeviceLogged
    \/ CronTick
    \/ ReadSettles
    \/ PushSettles

SpecCron == InitCron /\ [][NextCron]_vars

Executing == { r \in DOMAIN cronRuns : cronRuns[r].pc \in { "reading", "pushing" } }

\* C35: no two syncRecentLogs runs execute at the same time, and no source
\* record is fetched by two different runs.
C35_RunsDisjoint ==
    /\ Cardinality(Executing) <= 1
    /\ \A r1, r2 \in DOMAIN cronRuns :
           r1 # r2 => cronRuns[r1].data \cap cronRuns[r2].data = {}

(***************************************************************************)
(* SpecStamp: ZohoService.formatDateTimeForZoho followed by                *)
(* OptimizedSyncService.formatTimestamp.  A string is a sequence of        *)
(* one-character strings; a date is the record of its local fields.        *)
(* moment(string, formats) is modelled as the library's non-strict parser: *)
(* each format is applied token by token, a numeric token taking the next  *)
(* run of digits (at most 4 for YYYY, at most 2 otherwise) and skipping    *)
(* what precedes it, a literal taking its next occurrence; the format with *)
(* the lowest score (characters left over + 10 per unused token) wins,     *)
(* the earlier one on a tie.                                               *)
(***************************************************************************)
DigitChars == <<"0", "1", "2", "3", "4", "5", "6", "7", "8", "9">>

IsDigit(c) == \E n \in 1 .. 10 : DigitChars[n] = c

DigitValue(c) == (CHOOSE n \in 1 .. 10 : DigitChars[n] = c) - 1

\* String(n) for n >= 0
RECURSIVE NumberString(_)
NumberString(n) ==
    IF n < 10 THEN <<DigitChars[n + 1]>>
    ELSE NumberString(n \div 10) \o <<DigitChars[(n % 10) + 1]>>

\* String(n).padStart(w, '0')
RECURSIVE PadStart(_, _)
PadStart(s, w) == IF Len(s) >= w THEN s ELSE PadStart(<<"0">> \o s, w)

\* toInt of a run of digits
RECURSIVE ToInt(_)
ToInt(s) ==
    IF s = <<>> THEN 0
    ELSE 10 * ToInt(SubSeq(s, 1, Len(s) - 1)) + DigitValue(s[Len(s)])

\* formatDateTimeForZoho (ZohoService.js:181-191)
formatDateTimeForZoho(date) ==
    PadStart(NumberString(date.day), 2) \o <<"/">> \o
    PadStart(NumberString(date.month), 2) \o <<"/">> \o
    NumberString(date.year) \o <<" ">> \o
    PadStart(NumberString(date.hour), 2) \o <<":">> \o
    PadStart(NumberString(date.minute), 2) \o <<":">> \o
    PadStart(NumberString(date.second), 2)

\* moment#format('YYYY-MM-DD HH:mm:ss') (part_000:214)
FormatCanonical(date) ==
    PadStart(NumberString(date.year), 4) \o <<"-">> \o
    PadStart(NumberString(date.month), 2) \o <<"-">> \o
    PadStart(NumberString(date.day), 2) \o <<" ">> \o
    PadStart(NumberString(date.hour), 2) \o <<":">> \o
    PadStart(NumberString(date.minute), 2) \o <<":">> \o
    PadStart(NumberString(date.second), 2)

\* The formats with day and month exchanged (used to test the checks)
ParseFormatsMonthFirst ==
    << <<"YYYY", "-", "MM", "-", "DD", " ", "HH", ":", "mm", ":", "ss">>,
       <<"MM", "/", "DD", "/", "YYYY", " ", "HH", ":", "mm", ":", "ss">>,
       <<"DD", "/", "MM", "/", "YYYY", " ", "HH", ":", "mm", ":", "ss">>,
       <<"YYYY", "/", "MM", "/", "DD", " ", "HH", ":", "mm", ":", "ss">> >>

\* The formats given to moment (part_000:204-209), as token lists
ParseFormats ==
    << <<"YYYY", "-", "MM", "-", "DD", " ", "HH", ":", "mm", ":", "ss">>,
       <<"DD", "/", "MM", "/", "YYYY", " ", "HH", ":", "mm", ":", "ss">>,
       <<"MM", "/", "DD", "/", "YYYY", " ", "HH", ":", "mm", ":", "ss">>,
       <<"YYYY", "/", "MM", "/", "DD", " ", "HH", ":", "mm", ":", "ss">> >>

FieldOf(token) ==
    CASE token = "YYYY" -> "year"
      [] token = "MM" -> "month"
      [] token = "DD" -> "day"
      [] token = "HH" -> "hour"
      [] token = "mm" -> "minute"
      [] token = "ss" -> "second"
      [] OTHER -> "literal"

\* Position of the first character of s that satisfies the test, 0 if none.
FirstDigitAt(s) ==
    IF \E i \in 1 .. Len(s) : IsDigit(s[i])
    THEN CHOOSE i \in 1 .. Len(s) :
             IsDigit(s[i]) /\ \A j \in 1 .. i - 1 : ~IsDigit(s[j])
    ELSE 0

FirstCharAt(s, c) ==
    IF \E i \in 1 .. Len(s) : s[i] = c
    THEN CHOOSE i \in 1 .. Len(s) : s[i] = c /\ \A j \in 1 .. i - 1 : s[j] # c
    ELSE 0

\* Length of the run of digits of s that starts at i, at most w.
RunLength(s, i, w) ==
    CHOOSE k \in 1 .. w :
        /\ i + k - 1 <= Len(s)
        /\ \A j \in i .. i + k - 1 : IsDigit(s[j])
        /\ k = w \/ i + k > Len(s) \/ ~IsDigit(s[i + k])

\* hooks.parseTwoDigitYear
parseTwoDigitYear(n) == n + (IF n > 68 THEN 1900 ELSE 2000)

Unparsed(s) ==
    [ rest |-> s, date |-> [ f \in DOMAIN NoDate |-> -1 ], parsed |-> 0,
      unusedTokens |-> 0 ]

\* One token of configFromStringAndFormat applied to the parse state.
ApplyToken(st, token) ==
    IF FieldOf(token) = "literal"
    THEN LET i == FirstCharAt(st.rest, token)
         IN  IF i = 0 THEN st
             ELSE [ st EXCEPT !.rest = SubSeq(st.rest, i + 1, Len(st.rest)),
                              !.parsed = @ + 1 ]
    ELSE LET i == FirstDigitAt(st.rest)
         IN  IF i = 0
             THEN [ st EXCEPT !.unusedTokens = @ + 1 ]
             ELSE LET k == RunLength(st.rest, i, IF token = "YYYY" THEN 4 ELSE 2)
                      n == ToInt(SubSeq(st.rest, i, i + k - 1))
                      v == IF token = "YYYY" /\ k = 2 THEN parseTwoDigitYear(n)
                           ELSE n
                  IN  [ st EXCEPT !.rest = SubSeq(st.rest, i + k, Len(st.rest)),
                                  !.parsed = @ + k,
                                  !.date[FieldOf(token)] = v ]

RECURSIVE ApplyTokens(_, _, _)
ApplyTokens(st, format, i) ==
    IF i > Len(format) THEN st
    ELSE ApplyTokens(ApplyToken(st, format[i]), format, i + 1)

IsLeapYear(y) == (y % 4 = 0 /\ y % 100 # 0) \/ y % 400 = 0

DaysInMonth(y, m) ==
    IF m = 2 THEN (IF IsLeapYear(y) THEN 29 ELSE 28)
    ELSE IF m \in { 4, 6, 9, 11 } THEN 30 ELSE 31

\* isValid of a non-strict parse: every field read and none overflowing.
ValidDate(d) ==
    /\ d.year >= 0
    /\ d.month \in 1 .. 12
    /\ d.day \in 1 .. DaysInMonth(d.year, d.month)
    /\ d.hour \in 0 .. 23
    /\ d.minute \in 0 .. 59
    /\ d.second \in 0 .. 59

\* configFromStringAndFormat for one format: the fields, validity and score.
ParseWith(s, format) ==
    LET st == ApplyTokens(Unparsed(s), format, 1)
    IN  [ date |-> st.date,
          valid |-> ValidDate(st.date),
          score |-> (Len(s) - st.parsed) + 10 * st.unusedTokens ]

\* configFromStringAndArray: the best of the formats tried in order.
RECURSIVE BestParse(_, _, _, _)
BestParse(s, formats, i, best) ==
    IF i > Len(formats) THEN best
    ELSE LET cur == ParseWith(s, formats[i])
             take ==
                 IF best.score = -1 THEN TRUE
                 ELSE IF ~best.valid THEN cur.score < best.score \/ cur.valid
                 ELSE cur.score < best.score
         IN  BestParse(s, formats, i + 1, IF take THEN cur ELSE best)

NoParse == [ date |-> NoDate, valid |-> FALSE, score |-> -1 ]

Null == <<"n", "u", "l", "l">>

\* formatTimestamp(dateStr) for a dateStr that contains a space
\* (part_000:193-222)
formatTimestamp(dateStr) ==
    LET parsed == BestParse(dateStr, ParseFormats, 1, NoParse)
    IN  IF ~parsed.valid THEN Null ELSE FormatCanonical(parsed.date)

\* The dates of the model: a two-digit year, a common year and a leap year;
\* days on both sides of 12; the valid calendar dates among them.
PunchDates ==
    { d \in [ year : { 50, 2023, 2024 }, month : { 1, 2, 3, 11, 12 },
              day : { 1, 3, 12, 13, 29, 31 }, hour : { 0, 9, 23 },
              minute : { 0, 59 }, second : { 7 } ] :
        d.day <= DaysInMonth(d.year, d.month) }

InitStamp ==
    /\ cfg = DefaultConfig
    /\ ServiceConstructed
    /\ SinkIdle /\ SourceIdle /\ AppIdle /\ RevokeIdle /\ PeakIdle
    /\ TwinIdle
    /\ SyncIdle
    /\ TokenIdle
    /\ BatchIdle
    /\ DecodeIdle
    /\ HealthIdle
    /\ CronIdle
    /\ EmployeesIdle
    /\ punchDate \in PunchDates
    /\ formatted = <<>>
    /\ parsedBack = <<>>

FormatForZoho ==
    /\ formatted = <<>>
    /\ formatted' = formatDateTimeForZoho(punchDate)
    /\ UNCHANGED <<punchDate, parsedBack>>
    /\ UNCHANGED <<decodeVars, healthVars, cronVars, employeesVars>>
    /\ UNCHANGED outsideMore

ParseBack ==
    /\ formatted # <<>>
    /\ parsedBack = <<>>
    /\ parsedBack' = formatTimestamp(formatted)
    /\ UNCHANGED <<punchDate, formatted>>
    /\ UNCHANGED <<decodeVars, healthVars, cronVars, employeesVars>>
    /\ UNCHANGED outsideMore

NextStamp == FormatForZoho \/ ParseBack

SpecStamp == InitStamp /\ [][NextStamp]_vars

EmployeeReplies == { 200, 401, 500, 0 }

\* getAllEmployees is called: getValidAccessToken, then the POST.  When
\* getValidAccessToken throws, the call rejects (line 103 is outside the try).
EmployeesCalled(tokenOk) ==
    /\ employeesCall.pc = "idle"
    /\ employeesCall' =
           IF tokenOk
           THEN [ employeesCall EXCEPT !.pc = "posting", !.requests = @ + 1 ]
           ELSE [ employeesCall EXCEPT !.pc = "done", !.result = "threw" ]
    /\ UNCHANGED clientCall

\* The sink has answered the POST (lines 106-129): a 401 starts
\* refreshAccessToken, anything else ends the call.
EmployeesAnswered(status) ==
    /\ employeesCall.pc = "posting"
    /\ employeesCall' =
           IF status = 401
           THEN [ employeesCall EXCEPT !.pc = "refreshing", !.refreshes = @ + 1 ]
           ELSE [ employeesCall EXCEPT
                    !.pc = "done",
                    !.result = IF status = 200 THEN "success" ELSE "failure" ]
    /\ UNCHANGED clientCall

\* refreshAccessToken has settled (lines 123-128): after a refresh,
\* `return await this.getAllEmployees()` starts the operation again, with
\* the refreshed token and without a count of the attempts made.
EmployeesRefreshed(ok) ==
    /\ employeesCall.pc = "refreshing"
    /\ ok => employeesCall.requests < MaxEmployeeRequests
    /\ employeesCall' =
           IF ok
           THEN [ employeesCall EXCEPT !.pc = "posting", !.requests = @ + 1 ]
           ELSE [ employeesCall EXCEPT !.pc = "done", !.result = "failure" ]
    /\ UNCHANGED clientCall

\* A request through the zohoClient() instance: the request interceptor
\* awaits getAccessToken() and the request is sent (lines 43-47).
ClientCalled(tokenOk) ==
    /\ clientCall.pc = "idle"
    /\ clientCall' =
           IF tokenOk
           THEN [ clientCall EXCEPT !.pc = "requesting", !.requests = @ + 1 ]
           ELSE [ clientCall EXCEPT !.pc = "done", !.result = "threw" ]
    /\ UNCHANGED employeesCall

\* The response interceptor (lines 49-59): a 401 starts getAccessToken(true),
\* any other error is thrown.
ClientAnswered(status) ==
    /\ clientCall.pc = "requesting"
    /\ clientCall' =
           IF status = 401
           THEN [ clientCall EXCEPT !.pc = "refreshing", !.refreshes = @ + 1 ]
           ELSE [ clientCall EXCEPT
                    !.pc = "done",
                    !.result = IF status = 200 THEN "success" ELSE "threw" ]
    /\ UNCHANGED employeesCall

\* getAccessToken(true) has settled: the request is repeated with
\* axios.request(error.config), the global axios, which has no interceptors.
ClientRefreshed(ok) ==
    /\ clientCall.pc = "refreshing"
    /\ clientCall' =
           IF ok
           THEN [ clientCall EXCEPT !.pc = "retrying", !.requests = @ + 1 ]
           ELSE [ clientCall EXCEPT !.pc = "done", !.result = "threw" ]
    /\ UNCHANGED employeesCall

\* The repeated request has settled: its outcome is the outcome of the call.
ClientRetryAnswered(status) ==
    /\ clientCall.pc = "retrying"
    /\ clientCall' =
           [ clientCall EXCEPT
               !.pc = "done",
               !.result = IF status = 200 THEN "success" ELSE "threw" ]
    /\ UNCHANGED employeesCall

InitEmployees ==
    /\ cfg = DefaultConfig
    /\ ServiceConstructed
    /\ SinkIdle /\ SourceIdle /\ AppIdle /\ RevokeIdle /\ PeakIdle
    /\ TwinIdle
    /\ SyncIdle
    /\ TokenIdle
    /\ BatchIdle
    /\ MoreIdle

EmployeesStep(step) ==
    /\ step
    /\ UNCHANGED <<decodeVars, healthVars, cronVars, stampVars>>
    /\ UNCHANGED outsideMore

GetAllEmployeesCalled == EmployeesStep(\E ok \in BOOLEAN : EmployeesCalled(ok))
EmployeesPostSettles == EmployeesStep(\E s \in EmployeeReplies : EmployeesAnswered(s))
EmployeesRefreshSettles == EmployeesStep(\E ok \in BOOLEAN : EmployeesRefreshed(ok))
ClientRequestMade == EmployeesStep(\E ok \in BOOLEAN : ClientCalled(ok))
ClientRequestSettles == EmployeesStep(\E s \in EmployeeReplies : ClientAnswered(s))
ClientRefreshSettles == EmployeesStep(\E ok \in BOOLEAN : ClientRefreshed(ok))
ClientRetrySettles == EmployeesStep(\E s \in EmployeeReplies : ClientRetryAnswered(s))

NextEmployees ==
    \/ GetAllEmployeesCalled
    \/ EmployeesPostSettles
    \/ EmployeesRefreshSettles
    \/ ClientRequestMade
    \/ ClientRequestSettles
    \/ ClientRefreshSettles
    \/ ClientRetrySettles

SpecEmployees == InitEmployees /\ [][NextEmployees]_vars

\* C31: a sink-client operation answers a 401 with exactly one token refresh
\* and one retry and returns a second 401 as a failure: neither operation
\* sends more than two requests or makes more than one refresh, whatever the
\* sink answers.
C31_OneRefreshOneRetry ==
    /\ employeesCall.requests <= 2
    /\ employeesCall.refreshes <= 1
    /\ clientCall.requests <= 2
    /\ clientCall.refreshes <= 1

(***************************************************************************)
(* SpecLive: the life cycle of Spec with the scheduling the runtime        *)
(* provides: a pending setTimeout callback is eventually run, an awaited   *)
(* getTransactions call eventually settles (its requests carry a timeout   *)
(* and its attempts are bounded), and processTransactions eventually       *)
(* resolves.                                                               *)
(***************************************************************************)
\* The awaited getTransactions call of a cycle settles: the cycle ends
\* (empty poll, error branch) or goes on to processTransactions.
FetchSettles ==
    \E c \in cycles :
        /\ processPhase # "exited"
        /\ c.phase = "fetching"
        /\ \/ cycles' = cycles \ { c }
           \/ cycles' = (cycles \ { c }) \cup { [ c EXCEPT !.phase = "processing" ] }

\* The awaited processTransactions call of a cycle resolves: the cycle ends.
ProcessingSettles ==
    \E c \in cycles :
        /\ processPhase # "exited"
        /\ c.phase = "processing"
        /\ cycles' = cycles \ { c }

SpecLive ==
    /\ Init
    /\ [][Next]_vars
    /\ WF_vars(TimerFire)
    /\ WF_cycles(FetchSettles)
    /\ WF_cycles(ProcessingSettles)

CycleIds == 1 .. MaxSyncCycles

InCycle(k) == \E c \in cycles : c.id = k

NotStopped == isRunning /\ processPhase = "up"

\* Every cycle terminates unless the process exits first.
CyclesTerminate ==
    \A k \in CycleIds : InCycle(k) ~> ( ~InCycle(k) \/ processPhase = "exited" )

\* While the service is not stopped, the latest cycle is followed by
\* another one (up to the number of cycles of the model).
CyclesFollow ==
    \A k \in 1 .. MaxSyncCycles - 1 :
        ( cyclesStarted = k /\ NotStopped ) ~> ( cyclesStarted > k \/ ~NotStopped )

\* C34: while the service has not been stopped, every cycle, however it
\* ends, terminates and is eventually followed by another cycle, given that
\* timers fire and remote calls settle.
C34_ForwardProgress == CyclesTerminate /\ CyclesFollow

\* C34 witness: after one start() the service is running its third cycle,
\* which a timer started after a cycle that ended in the error branch.
C34_Witness ==
    /\ startCalls = 1
    /\ NotStopped
    /\ cyclesStarted = 3
    /\ cycleNo = 2
    /\ lastOutcome = "error"
    /\ InCycle(3)
====
